---- MODULE Spec2Model ----
(***************************************************************************)
(* Model of the Disaster Management Assistant API (src/fine_tune.py) and   *)
(* of the data-source helpers it calls (src/utils.py, src/get_weather.py,  *)
(* src/get_earthquakes.py, src/get_events.py, src/get_news.py).            *)
(*                                                                         *)
(* Conventions                                                             *)
(*  - Python strings are TLA+ strings; f-strings are concatenations.       *)
(*  - An optional value is a sequence of length 0 (None) or 1.             *)
(*  - A dict with a fixed shape is a record; the insertion-ordered dict    *)
(*    context_data is a sequence of <<key, value>> pairs.                  *)
(*  - Coordinates are integers in units of 1e-4 degree.                    *)
(*  - An external service is modelled by the set of outcomes its client    *)
(*    library can produce (a raised exception or a decoded payload); the   *)
(*    helper functions are operators from such an outcome to the           *)
(*    dictionary they return.                                              *)
(***************************************************************************)
EXTENDS Integers, Sequences, FiniteSets, TLC

(***************************************************************************)
(* Bounds of the model                                                     *)
(***************************************************************************)
MaxQuakes == 4
MaxEvents == 2
MaxArticles == 2
\* the most items a helper hands to a summary when the summaries are looked
\* at on their own: more than either limit named for them
MaxItems == 6

(***************************************************************************)
(* Python values                                                           *)
(***************************************************************************)
None == <<>>
Some(v) == <<v>>
Val(o) == o[1]

\* str(x) of an optional string, as an f-string renders it
PyStr(o) == IF o = None THEN "None" ELSE Val(o)

\* truth value of an optional string: None and "" are falsy
Truthy(o) == o # None /\ Val(o) # ""

\* s[:n] on a string
Slice(s, n) == SubSeq(s, 1, IF Len(s) < n THEN Len(s) ELSE n)

\* list[:n]
Take(seq, n) == SubSeq(seq, 1, IF Len(seq) < n THEN Len(seq) ELSE n)

\* sub in s
Contains(s, sub) ==
    \E i \in 1..(Len(s) - Len(sub) + 1) : SubSeq(s, i, i + Len(sub) - 1) = sub

RECURSIVE Join(_, _)
\* sep.join(parts)
Join(sep, parts) ==
    IF parts = <<>> THEN ""
    ELSE IF Len(parts) = 1 THEN parts[1]
    ELSE parts[1] \o sep \o Join(sep, Tail(parts))

\* f"{x:.2f}" of a non-negative coordinate held in units of 1e-4
Fmt2f(x) ==
    LET h == (x + 50) \div 100
        frac == h % 100
    IN ToString(h \div 100) \o "." \o
       (IF frac < 10 THEN "0" ELSE "") \o ToString(frac)

(***************************************************************************)
(* Configuration (src/fine_tune.py:56-59, 119-122)                         *)
(***************************************************************************)
DEFAULT_LAT == 205937
DEFAULT_LON == 789629
INDIA_BBOX == <<68, 6, 98, 38>>
MinNewTokens == 50
MaxNewTokens == 1024
DefaultNewTokens == 300

(***************************************************************************)
(* Exceptions.  A raised exception is a record [type, msg]; HTTPException  *)
(* carries status_code and detail in addition.                             *)
(***************************************************************************)
Exc(type, msg) == [type |-> type, msg |-> msg, status_code |-> 0, detail |-> ""]
\* str() of an HTTPException is "<status_code>: <detail>"
HTTPException(code, detail) ==
    [type |-> "HTTPException", msg |-> ToString(code) \o ": " \o detail,
     status_code |-> code, detail |-> detail]

\* the classes that derive from Exception, i.e. what "except Exception" catches
ExceptionClasses ==
    {"RequestException", "TypeError", "ValueError", "IndexError", "GeocoderError",
     "GoogleAPIError", "HTTPException"}
\* variant: the handlers catch request errors only
ExceptException_RequestErrorsOnly(e) == e.type \in {"RequestException"}

ExceptException(e) == e.type \in ExceptionClasses

IndexOutOfRange == Exc("IndexError", "list index out of range")

\* the two except clauses that close the try block of a helper: the errors
\* of requests first, then Exception; anything else leaves the helper
HelperExcept(e, request_error, other_error) ==
    IF e.type = "RequestException" THEN [error |-> request_error \o e.msg]
    ELSE IF ExceptException(e) THEN [error |-> other_error \o e.msg]
    ELSE [raised |-> e]

(***************************************************************************)
(* src/utils.py: get_coordinates                                           *)
(***************************************************************************)
\* what geocode(place_name) can do: return a location, return None, raise
GeocodeOutcomes ==
    { [kind |-> "location", latitude |-> 225726, longitude |-> 883639,
       exc |-> Exc("", "")],
      [kind |-> "none", latitude |-> 0, longitude |-> 0, exc |-> Exc("", "")],
      [kind |-> "raise", latitude |-> 0, longitude |-> 0,
       exc |-> Exc("GeocoderError", "Service timed out")] }

\* variant: a place that is not found yields the null island instead of an error
get_coordinates_ZeroOnFailure(place_name, geo) ==
    IF geo.kind = "raise"
    THEN [error |-> "Geocoding failed for '" \o place_name \o "': " \o geo.exc.msg]
    ELSE [latitude |-> geo.latitude, longitude |-> geo.longitude]

get_coordinates(place_name, geo) ==
    IF geo.kind = "raise"
    THEN IF ExceptException(geo.exc)
         THEN [error |-> "Geocoding failed for '" \o place_name \o "': " \o geo.exc.msg]
         ELSE [raised |-> geo.exc]
    ELSE IF geo.kind = "location"
    THEN [latitude |-> geo.latitude, longitude |-> geo.longitude]
    ELSE [error |-> "Could not geocode '" \o place_name \o "'."]

(***************************************************************************)
(* src/get_weather.py: get_city_weather                                    *)
(***************************************************************************)
\* a decoded OpenWeatherMap body; an absent key is None
OwmBody(cod, message, name, weather) ==
    [cod |-> cod, message |-> message, name |-> name,
     temp |-> Some("31.5"), feels_like |-> Some("36.2"), humidity |-> Some("70"),
     pressure |-> Some("1004"), speed |-> Some("4.1"), weather |-> weather]

NoBody == OwmBody(None, None, None, None)

\* API key absent; requests.get / raise_for_status raising; a decoded body
WeatherOutcomes ==
    { [kind |-> "nokey", exc |-> Exc("", ""), data |-> NoBody],
      [kind |-> "raise",
       exc |-> Exc("RequestException", "404 Client Error: Not Found for url"),
       data |-> NoBody],
      [kind |-> "json", exc |-> Exc("", ""),
       data |-> OwmBody(Some(401), Some("Invalid API key"), None, None)],
      [kind |-> "json", exc |-> Exc("", ""),
       data |-> OwmBody(Some(200), None, Some("Kolkata"),
                        Some(<<[description |-> Some("haze")]>>))] }

get_city_weather(city_name, ext) ==
    IF ext.kind = "nokey"
    THEN [error |-> "OpenWeatherMap API Key not found in .env file"]
    ELSE IF ext.kind = "raise"
    THEN HelperExcept(ext.exc, "Network or request error: ",
                      "An unexpected error occurred: ")
    ELSE LET weather_data == ext.data IN
         IF weather_data.cod # Some(200)
         THEN [error |-> "OWM API Error: " \o
                 (IF weather_data.message = None THEN "Unknown error"
                  ELSE Val(weather_data.message))]
         ELSE LET weather == IF weather_data.weather = None
                             THEN <<[description |-> None]>>
                             ELSE Val(weather_data.weather)
              IN IF weather = <<>>
                 THEN HelperExcept(IndexOutOfRange, "Network or request error: ",
                                   "An unexpected error occurred: ")
                 ELSE [city |-> weather_data.name,
                       temperature_c |-> weather_data.temp,
                       feels_like_c |-> weather_data.feels_like,
                       humidity_pct |-> weather_data.humidity,
                       pressure_hpa |-> weather_data.pressure,
                       wind_speed_mps |-> weather_data.speed,
                       description |-> IF weather[1].description = None THEN "N/A"
                                       ELSE Val(weather[1].description)]

(***************************************************************************)
(* src/get_earthquakes.py: get_recent_earthquakes_near_location            *)
(***************************************************************************)
\* datetime.utcfromtimestamp(t).isoformat(), t in seconds (properties.time / 1000)
IsoFormat(t) ==
    CASE t = 1717234200 -> "2024-06-01T09:30:00"
      [] t = 1717147800 -> "2024-05-31T09:30:00"
      [] t = 1717061400 -> "2024-05-30T09:30:00"
      [] t = 1716975000 -> "2024-05-29T09:30:00"
      [] t = 1716888600 -> "2024-05-28T09:30:00"
      [] t = 1716802200 -> "2024-05-27T09:30:00"
      [] OTHER -> "2024-05-26T09:30:00"

\* the i-th USGS feature; the time property is held in seconds
QuakeFeature(i, withTime) ==
    [id |-> "us" \o ToString(i), mag |-> Some("5." \o ToString(i)),
     place |-> Some("Nepal"),
     time |-> IF withTime THEN Some(1717234200 - 86400 * (i - 1)) ELSE None,
     coordinates |-> <<860000 + i, 280000, 10>>]

\* n features; when lastHasTime is false the last one carries no time property
QuakeFeatures(n, lastHasTime) ==
    [i \in 1..n |-> QuakeFeature(i, i < n \/ lastHasTime)]

QuakeOutcomes ==
    { [kind |-> "raise", exc |-> Exc("RequestException", "Read timed out"),
       features |-> <<>>] }
    \cup { [kind |-> "json", exc |-> Exc("", ""),
            features |-> QuakeFeatures(n, b)] :
           n \in 0..MaxQuakes, b \in BOOLEAN }

Earthquake(feature) ==
    [id |-> feature.id, magnitude |-> feature.mag, place |-> feature.place,
     time_utc |-> IF feature.time # None /\ Val(feature.time) # 0
                  THEN Some(IsoFormat(Val(feature.time))) ELSE None,
     latitude |-> feature.coordinates[2], longitude |-> feature.coordinates[1],
     depth_km |-> feature.coordinates[3]]

\* variant: the helper handles the errors of requests only
get_recent_earthquakes_near_location_NoCatchAll(lat, lon, ext) ==
    LET RequestErrorsOnly(e, request_error) ==
            IF e.type = "RequestException" THEN [error |-> request_error \o e.msg]
            ELSE [raised |-> e]
    IN
    IF ext.kind = "raise"
    THEN RequestErrorsOnly(ext.exc, "Network error fetching earthquake data: ")
    ELSE IF \E i \in 1..Len(ext.features) : Len(ext.features[i].coordinates) \in {1, 2}
    THEN RequestErrorsOnly(IndexOutOfRange, "Network error fetching earthquake data: ")
    ELSE LET located(f) == f.coordinates # <<>>
             kept == SelectSeq(ext.features, located)
             earthquakes == [i \in 1..Len(kept) |-> Earthquake(kept[i])]
         IN [count |-> Len(earthquakes), earthquakes |-> earthquakes]

get_recent_earthquakes_near_location(lat, lon, ext) ==
    IF ext.kind = "raise"
    THEN HelperExcept(ext.exc, "Network error fetching earthquake data: ",
                      "Error processing earthquake data: ")
    ELSE IF \E i \in 1..Len(ext.features) : Len(ext.features[i].coordinates) \in {1, 2}
    THEN HelperExcept(IndexOutOfRange, "Network error fetching earthquake data: ",
                      "Error processing earthquake data: ")
    ELSE LET located(f) == f.coordinates # <<>>
             kept == SelectSeq(ext.features, located)
             earthquakes == [i \in 1..Len(kept) |-> Earthquake(kept[i])]
         IN [count |-> Len(earthquakes), earthquakes |-> earthquakes]

(***************************************************************************)
(* src/get_events.py: get_natural_events                                   *)
(***************************************************************************)
\* the i-th EONET event; an absent 'categories' or 'geometry' key reads as
\* the default [{}], a list of one empty dict
EonetEvent(i, withDate) ==
    [id |-> "EONET_" \o ToString(i), title |-> Some("Tropical Cyclone Remal"),
     categories |-> <<[id |-> Some("severeStorms")]>>,
     geometry |-> <<[date |-> IF withDate THEN Some("2024-05-27T00:00:00Z") ELSE None,
                     coordinates |-> <<880000 + i, 210000>>]>>,
     link |-> "https://eonet.gsfc.nasa.gov/api/v3/events/EONET_" \o ToString(i)]

\* n events; when lastHasDate is false the last geometry point carries no date
EonetEvents(n, lastHasDate) ==
    [i \in 1..n |-> EonetEvent(i, i < n \/ lastHasDate)]

EventOutcomes ==
    { [kind |-> "raise", exc |-> Exc("RequestException", "Connection refused"),
       events |-> <<>>] }
    \cup { [kind |-> "json", exc |-> Exc("", ""), events |-> EonetEvents(n, b)] :
           n \in 0..MaxEvents, b \in BOOLEAN }

NaturalEvent(event) ==
    LET last_geom == event.geometry[Len(event.geometry)]
        coords == last_geom.coordinates
    IN [id |-> event.id, title |-> event.title,
        category |-> event.categories[1].id,
        last_update_utc |-> last_geom.date,
        latitude |-> IF Len(coords) = 2 THEN Some(coords[2]) ELSE None,
        longitude |-> IF Len(coords) = 2 THEN Some(coords[1]) ELSE None,
        link |-> event.link]

get_natural_events(days, bbox, limit, ext) ==
    IF ext.kind = "raise"
    THEN HelperExcept(ext.exc, "Network error fetching natural event data: ",
                      "Error processing natural event data: ")
    ELSE IF \E i \in 1..Len(ext.events) :
              ext.events[i].geometry = <<>> \/ ext.events[i].categories = <<>>
    THEN HelperExcept(IndexOutOfRange, "Network error fetching natural event data: ",
                      "Error processing natural event data: ")
    ELSE LET events == [i \in 1..Len(ext.events) |-> NaturalEvent(ext.events[i])]
         IN [count |-> Len(events), events |-> events]

(***************************************************************************)
(* src/get_news.py: get_disaster_news                                      *)
(***************************************************************************)
NewsArticle(i) ==
    [title |-> Some("Cyclone Remal makes landfall " \o ToString(i)),
     source |-> [name |-> Some("The Hindu")],
     description |-> None, url |-> None, publishedAt |-> None]

NewsArticles(n) == [i \in 1..n |-> NewsArticle(i)]

NewsBody(status, totalResults, n) ==
    [status |-> status, code |-> Some("rateLimited"),
     message |-> Some("Too many requests"),
     totalResults |-> totalResults, articles |-> NewsArticles(n)]

\* API key absent; requests raising; a body whose status is not ok; an ok body
\* with n articles whose totalResults is n, is absent, or (no article) is 1
NewsOutcomes ==
    { [kind |-> "nokey", exc |-> Exc("", ""), data |-> NewsBody("", None, 0)],
      [kind |-> "raise", exc |-> Exc("RequestException", "429 Client Error"),
       data |-> NewsBody("", None, 0)],
      [kind |-> "json", exc |-> Exc("", ""), data |-> NewsBody("error", None, 0)],
      [kind |-> "json", exc |-> Exc("", ""), data |-> NewsBody("ok", Some(1), 0)] }
    \cup UNION { { [kind |-> "json", exc |-> Exc("", ""),
                     data |-> NewsBody("ok", t, n)] : t \in {Some(n), None} } :
                  n \in 0..MaxArticles }

Article(article) ==
    [title |-> article.title, source |-> article.source.name,
     description |-> article.description, url |-> article.url,
     published_at |-> article.publishedAt]

get_disaster_news(query_string, page_size, ext) ==
    IF ext.kind = "nokey"
    THEN [error |-> "NewsAPI Key not found in .env file"]
    ELSE IF ext.kind = "raise"
    THEN HelperExcept(ext.exc, "Network error fetching news data: ",
                      "Error processing news data: ")
    ELSE LET data == ext.data IN
         IF data.status # "ok"
         THEN [error |-> "NewsAPI Error: " \o PyStr(data.code) \o " - " \o
                         PyStr(data.message)]
         ELSE [total_results |-> data.totalResults,
               articles |-> [i \in 1..Len(data.articles) |-> Article(data.articles[i])]]

(***************************************************************************)
(* src/fine_tune.py: fetch_all_context, the four try blocks.  Each yields  *)
(* the exception raised inside the block (None when it completes) and the  *)
(* summary it assigned (None when it assigned nothing).                    *)
(***************************************************************************)
Completed(info) == [exc |-> None, info |-> info]
Raised(e) == [exc |-> Some(e), info |-> None]

NotSubscriptable == Exc("TypeError", "'NoneType' object is not subscriptable")
NotComparable ==
    Exc("TypeError", "'>' not supported between instances of 'NoneType' and 'int'")

\* lines 245-249
WeatherBlock(weather_data, location_name) ==
    IF "error" \notin DOMAIN weather_data
    THEN Completed(Some(
           "In " \o PyStr(weather_data.city) \o ": " \o
           PyStr(weather_data.temperature_c) \o "C, " \o
           weather_data.description \o ", Humidity " \o
           PyStr(weather_data.humidity_pct) \o "%, Wind " \o
           PyStr(weather_data.wind_speed_mps) \o " m/s."))
    ELSE Completed(None)

QuakeLine(q) ==
    "Mag " \o PyStr(q.magnitude) \o " near " \o PyStr(q.place) \o " (" \o
    Slice(Val(q.time_utc), 16) \o "Z)"

\* lines 257-260
QuakeBlock(quakes) ==
    IF "error" \notin DOMAIN quakes /\ quakes.count > 0
    THEN LET top == Take(quakes.earthquakes, 3) IN
         IF \E i \in 1..Len(top) : top[i].time_utc = None
         THEN Raised(NotSubscriptable)
         ELSE Completed(Some(Join("; ", [i \in 1..Len(top) |-> QuakeLine(top[i])])))
    ELSE Completed(None)

EventLine(e) ==
    PyStr(e.category) \o ": " \o PyStr(e.title) \o " (Updated " \o
    Slice(Val(e.last_update_utc), 10) \o ")"

\* lines 268-271
EventBlock(events) ==
    IF "error" \notin DOMAIN events /\ events.count > 0
    THEN IF \E i \in 1..Len(events.events) : events.events[i].last_update_utc = None
         THEN Raised(NotSubscriptable)
         ELSE Completed(Some(Join("; ",
                [i \in 1..Len(events.events) |-> EventLine(events.events[i])])))
    ELSE Completed(None)

NewsLine(n) == "'" \o PyStr(n.title) \o "' (" \o PyStr(n.source) \o ")"

\* variant: the whole user text goes into the news query
NewsQueryTerms_NoTruncation(text_input, location_context, location_name) ==
    "(" \o text_input \o ") AND (" \o
    (IF Truthy(location_context) THEN location_name ELSE "India") \o
    ") AND (disaster OR flood OR cyclone OR earthquake OR heatwave OR landslide)"

\* line 280
NewsQueryTerms(text_input, location_context, location_name) ==
    "(" \o Slice(text_input, 80) \o ") AND (" \o
    (IF Truthy(location_context) THEN location_name ELSE "India") \o
    ") AND (disaster OR flood OR cyclone OR earthquake OR heatwave OR landslide)"

\* lines 281-284
NewsBlock(news) ==
    IF "error" \notin DOMAIN news
    THEN IF news.total_results = None
         THEN Raised(NotComparable)
         ELSE IF Val(news.total_results) > 0
         THEN Completed(Some(Join("; ",
                [i \in 1..Len(news.articles) |-> NewsLine(news.articles[i])])))
         ELSE Completed(None)
    ELSE Completed(None)

(***************************************************************************)
(* src/fine_tune.py: prompt construction, lines 304-318                    *)
(***************************************************************************)
LowerCase == "abcdefghijklmnopqrstuvwxyz"
UpperCase == "ABCDEFGHIJKLMNOPQRSTUVWXYZ"
IsLower(c) == \E i \in 1..26 : SubSeq(LowerCase, i, i) = c
IsUpper(c) == \E i \in 1..26 : SubSeq(UpperCase, i, i) = c
ToUpper(c) ==
    IF IsLower(c)
    THEN LET i == CHOOSE k \in 1..26 : SubSeq(LowerCase, k, k) = c
         IN SubSeq(UpperCase, i, i)
    ELSE c
ToLower(c) ==
    IF IsUpper(c)
    THEN LET i == CHOOSE k \in 1..26 : SubSeq(UpperCase, k, k) = c
         IN SubSeq(LowerCase, i, i)
    ELSE c

RECURSIVE Replace(_, _, _)
\* s.replace(old, new) for a one-character old
Replace(s, old, new) ==
    IF s = "" THEN ""
    ELSE (IF SubSeq(s, 1, 1) = old THEN new ELSE SubSeq(s, 1, 1)) \o
         Replace(SubSeq(s, 2, Len(s)), old, new)

RECURSIVE TitleFrom(_, _)
\* s.title(): a letter is upper-cased after a non-letter, lower-cased after a letter
TitleFrom(s, afterLetter) ==
    IF s = "" THEN ""
    ELSE LET c == SubSeq(s, 1, 1)
             letter == IsLower(c) \/ IsUpper(c)
         IN (IF afterLetter THEN ToLower(c) ELSE ToUpper(c)) \o
            TitleFrom(SubSeq(s, 2, Len(s)), letter)
Title(s) == TitleFrom(s, FALSE)

\* line 304: one bullet per item of context_data with a truthy value, in
\* the dict's order, location_info excluded
ContextLines(cd) ==
    LET kept(item) == Truthy(item[2]) /\ item[1] # "location_info"
        line(item) == "- " \o Title(Replace(item[1], "_", " ")) \o ": " \o Val(item[2])
        items == SelectSeq(cd, kept)
    IN [i \in 1..Len(items) |-> line(items[i])]

Sentinel == "No specific real-time context was retrieved for this query."

\* context_data.get(key, default)
DictGet(cd, key, default) ==
    IF \E i \in 1..Len(cd) : cd[i][1] = key
    THEN LET i == CHOOSE k \in 1..Len(cd) :
                    cd[k][1] = key /\ \A j \in 1..Len(cd) : cd[j][1] = key => j <= k
         IN cd[i][2]
    ELSE default

\* variant: the section is the joined bullets even when there is none
ContextSection_Raw(cs) == cs

\* line 313: the section below "Relevant Real-time Information:"
ContextSection(cs) == IF cs # "" THEN cs ELSE Sentinel

RoleBlock ==
    "Role: You are an AI assistant specialized in Indian disaster management and safety procedures."
TaskBlock ==
    "Task: Based ONLY on the provided real-time information and your general knowledge of disaster management best practices relevant to India, respond directly and accurately to the user's request. If providing safety advice, make it clear, concise, and actionable. If context is missing for a specific aspect of the query, state that clearly but still provide general advice if possible. Prioritize safety."

\* variant: the task block carries the time of the request
FinalPrompt_StampedTask(cd, cs, text_input, now) ==
    RoleBlock \o "\n" \o
    "Current Time: " \o now \o "\n" \o
    "Location Context: " \o PyStr(DictGet(cd, "location_info", Some("Default India context"))) \o "\n" \o
    "\n" \o
    "Relevant Real-time Information:\n" \o
    ContextSection(cs) \o "\n" \o
    "\n" \o
    "User's Request: " \o text_input \o "\n" \o
    "\n" \o
    TaskBlock \o " (" \o now \o ")\n" \o
    "Response:"

\* lines 308-318
FinalPrompt(cd, cs, text_input, now) ==
    RoleBlock \o "\n" \o
    "Current Time: " \o now \o "\n" \o
    "Location Context: " \o PyStr(DictGet(cd, "location_info", Some("Default India context"))) \o "\n" \o
    "\n" \o
    "Relevant Real-time Information:\n" \o
    ContextSection(cs) \o "\n" \o
    "\n" \o
    "User's Request: " \o text_input \o "\n" \o
    "\n" \o
    TaskBlock \o "\n" \o
    "Response:"

\* dict.update(other): a present key keeps its position, a new key is appended
RECURSIVE DictUpdate(_, _)
DictUpdate(cd, other) ==
    IF other = <<>> THEN cd
    ELSE LET item == Head(other)
             present == \E i \in 1..Len(cd) : cd[i][1] = item[1]
             set == IF present
                    THEN [i \in 1..Len(cd) |->
                            IF cd[i][1] = item[1] THEN item ELSE cd[i]]
                    ELSE Append(cd, item)
         IN DictUpdate(set, Tail(other))

\* variant: the results are compiled news first, weather last
CompiledResults_Reversed(w, q, e, n) ==
    << <<"related_news_headlines", n>>,
       <<"recent_natural_events", e>>,
       <<"recent_earthquakes", q>>,
       <<"current_weather", w>> >>

\* variant: only the sources that produced a summary are compiled
CompiledResults_OnlySummaries(w, q, e, n) ==
    SelectSeq(<< <<"current_weather", w>>,
                 <<"recent_earthquakes", q>>,
                 <<"recent_natural_events", e>>,
                 <<"related_news_headlines", n>> >>,
              LAMBDA item : item[2] # None)

\* lines 289-294: the dict fetch_all_context returns
CompiledResults(w, q, e, n) ==
    << <<"current_weather", w>>,
       <<"recent_earthquakes", q>>,
       <<"recent_natural_events", e>>,
       <<"related_news_headlines", n>> >>

(***************************************************************************)
(* src/fine_tune.py: the Gemini call and its interpretation, lines 326-375 *)
(***************************************************************************)
LlmResponse(candidates, block_reason, text) ==
    [kind |-> "response", exc |-> Exc("", ""), candidates |-> candidates,
     block_reason |-> block_reason, text |-> text]

\* generate_content_async raising; no candidate with and without a block
\* reason; a candidate whose .text is readable; a candidate whose .text raises
\* ValueError (text is None)
LlmOutcomes ==
    { [kind |-> "raise", exc |-> Exc("GoogleAPIError", "503 Service Unavailable"),
       candidates |-> 0, block_reason |-> None, text |-> None],
      LlmResponse(0, Some("SAFETY"), None),
      LlmResponse(0, None, None),
      LlmResponse(1, None, Some("Stay indoors and follow official advisories.")),
      LlmResponse(1, None, None) }

\* variant: an unreadable candidate is answered with the placeholder text
LlmTryBody_SwallowParseError(llm) ==
    IF llm.kind = "raise"
    THEN [exc |-> Some(llm.exc), generated_text |-> "Error: LLM call failed."]
    ELSE IF llm.candidates = 0
    THEN LET text == IF Truthy(llm.block_reason)
                     THEN "Response blocked by safety filter: " \o Val(llm.block_reason)
                     ELSE "LLM response was empty or blocked for unknown reasons."
         IN [exc |-> Some(HTTPException(400, text)), generated_text |-> text]
    ELSE IF llm.text # None
    THEN [exc |-> None, generated_text |-> Val(llm.text)]
    ELSE [exc |-> None, generated_text |-> "Error: Could not parse LLM response content."]

\* lines 327-368, the body of the outer try: the exception it raises (None
\* when it completes) and the value generated_text holds afterwards
LlmTryBody(llm) ==
    IF llm.kind = "raise"
    THEN [exc |-> Some(llm.exc), generated_text |-> "Error: LLM call failed."]
    ELSE IF llm.candidates = 0
    THEN LET text == IF Truthy(llm.block_reason)
                     THEN "Response blocked by safety filter: " \o Val(llm.block_reason)
                     ELSE "LLM response was empty or blocked for unknown reasons."
         IN [exc |-> Some(HTTPException(400, text)), generated_text |-> text]
    ELSE IF llm.text # None
    THEN [exc |-> None, generated_text |-> Val(llm.text)]
    ELSE LET text == "Error: Could not parse LLM response content."
         IN [exc |-> Some(HTTPException(500, text)), generated_text |-> text]

\* lines 327-375: the outer "except Exception" turns whatever the body raised
\* into HTTPException(502)
LlmTry(llm) ==
    LET r == LlmTryBody(llm) IN
    IF r.exc # None /\ ExceptException(Val(r.exc))
    THEN [exc |-> Some(HTTPException(502,
                    "Error communicating with the LLM service: " \o Val(r.exc).msg)),
          generated_text |-> r.generated_text]
    ELSE r

\* what the framework answers when the handler raises e
ErrorResponse(e) ==
    IF e.type = "HTTPException"
    THEN [status_code |-> e.status_code, detail |-> e.detail, body |-> None]
    ELSE [status_code |-> 500, detail |-> "Internal Server Error", body |-> None]

\* lines 381-386
OkResponse(q, cd, text) ==
    [status_code |-> 200, detail |-> "",
     body |-> Some([user_query |-> q.text_input,
                    location_context_provided |-> q.location_context,
                    context_used_summary |-> cd,
                    llm_response |-> text])]

(***************************************************************************)
(* Requests                                                                *)
(***************************************************************************)
LongText ==
    "My village near the river is flooding after the cyclone, what should we do right now?"

TextInputs == {None, Some("Is Kolkata safe from Cyclone Remal?"), Some(LongText)}
LocationInputs == {None, Some(""), Some("Kolkata"), Some("Geocoding failed")}
TokenInputs ==
    {None, Some(MinNewTokens - 1), Some(MinNewTokens), Some(MaxNewTokens),
     Some(MaxNewTokens + 1)}

\* the JSON bodies a client may post to /process
Bodies ==
    { [text_input |-> t, location_context |-> l, max_new_tokens |-> n] :
      t \in TextInputs, l \in LocationInputs, n \in TokenInputs }

Timestamps == {"2024-06-01 15:00:00 IST", "2024-06-01 15:00:07 IST"}

\* variant: the upper limit of max_new_tokens is not checked
ValidationErrors_NoUpperLimit(b) ==
    (IF b.text_input = None THEN {"text_input: field required"} ELSE {})
    \cup (IF b.max_new_tokens # None /\ Val(b.max_new_tokens) < MinNewTokens
          THEN {"max_new_tokens: greater than or equal"} ELSE {})

\* ProcessQuery, lines 119-122: the validation errors of a body
ValidationErrors(b) ==
    (IF b.text_input = None THEN {"text_input: field required"} ELSE {})
    \cup (IF b.max_new_tokens # None /\ Val(b.max_new_tokens) < MinNewTokens
          THEN {"max_new_tokens: greater than or equal"} ELSE {})
    \cup (IF b.max_new_tokens # None /\ Val(b.max_new_tokens) > MaxNewTokens
          THEN {"max_new_tokens: less than or equal"} ELSE {})

\* ProcessQuery, lines 119-122: the model built from a valid body
ProcessQuery(b) ==
    [text_input |-> Val(b.text_input),
     location_context |-> b.location_context,
     max_new_tokens |-> IF b.max_new_tokens = None THEN DefaultNewTokens
                        ELSE Val(b.max_new_tokens)]

\* the four data sources, in the order of the dict fetch_all_context returns
Sources == {"weather", "seismic", "events", "news"}

\* what a helper handed back without an error field: a success without
\* items or a success with at least one item
Returned(data, items) == IF items = <<>> THEN "empty" ELSE "items"

\* one started external call and its arguments
Call(fn, place, lat, lon, bbox, text, n) ==
    [fn |-> fn, place |-> place, lat |-> lat, lon |-> lon, bbox |-> bbox,
     text |-> text, n |-> n]

VARIABLES
    gemini_model,               \* module state: TRUE when the model handle is set
    body,                       \* the posted JSON body
    pc,                         \* position of the handler
    query,                      \* the validated ProcessQuery, None before
    target_lat, target_lon,
    location_name_for_context,
    coords,                     \* what get_coordinates returned, None before
    context_data,
    weather_data, quakes, events, news,        \* locals of fetch_all_context
    weather_info, quake_info, event_info, news_info,
    context_lines, context_string, final_prompt,
    generated_text,
    response,                   \* the HTTP response, None while running
    calls,                      \* the external calls started so far, in order
    geo_outcome,                \* what geocode() did, None before
    returned,                   \* per source, what its helper returned
    llm_outcome,                \* what generate_content_async did, None before
    request,                    \* an HTTP request to the API: method, path, key, json
    handlers,                   \* the locals of the /process handlers running side by side
    TWILIO_AVAILABLE,           \* src/send_sms_twilio.py: the library was imported
    twilio_client,              \* src/send_sms_twilio.py: TRUE when the client is set
    to_phone_number, message_body,
    twilio_outcome,             \* what messages.create did, None before
    TF_KERAS_AVAILABLE,         \* src/image_analyzer.py: TensorFlow was imported
    cnn_model,                  \* src/image_analyzer.py: the loaded model, None before
    class_labels                \* src/image_analyzer.py: the loaded labels, None before

location == <<target_lat, target_lon, location_name_for_context, coords>>
payloads == <<weather_data, quakes, events, news>>
infos == <<weather_info, quake_info, event_info, news_info>>
prompt == <<context_lines, context_string, final_prompt>>
observed == <<geo_outcome, returned, llm_outcome>>
sms == <<TWILIO_AVAILABLE, twilio_client, to_phone_number, message_body, twilio_outcome>>
cnn == <<TF_KERAS_AVAILABLE, cnn_model, class_labels>>
\* the state of the other entry points and modules, which /process leaves alone
elsewhere == <<request, handlers, sms, cnn>>
vars == <<gemini_model, body, pc, query, location, context_data, payloads, infos,
          prompt, generated_text, response, calls, observed, elsewhere>>

\* the SMS module and the image module as imported without their libraries,
\* no request to another endpoint, no second handler
NoSms ==
    /\ TWILIO_AVAILABLE = FALSE /\ twilio_client = FALSE
    /\ to_phone_number = None /\ message_body = None
    /\ twilio_outcome = None
NoCnn == TF_KERAS_AVAILABLE = FALSE /\ cnn_model = None /\ class_labels = None
NoRequest == request = None
NoHandlers == handlers = <<>>

Init ==
    /\ gemini_model \in BOOLEAN
    /\ body \in Bodies
    /\ pc = "received"
    /\ query = None
    /\ target_lat = 0 /\ target_lon = 0
    /\ location_name_for_context = ""
    /\ coords = None
    /\ context_data = <<>>
    /\ weather_data = None /\ quakes = None /\ events = None /\ news = None
    /\ weather_info = None /\ quake_info = None /\ event_info = None /\ news_info = None
    /\ context_lines = <<>> /\ context_string = "" /\ final_prompt = ""
    /\ generated_text = ""
    /\ response = None
    /\ calls = <<>>
    /\ geo_outcome = None
    /\ returned = [s \in Sources |-> "not_called"]
    /\ llm_outcome = None
    /\ NoRequest /\ NoHandlers /\ NoSms /\ NoCnn

\* the handler ends with response r
Finish(r) == pc' = "done" /\ response' = Some(r)

\* request validation by the framework before the handler body runs
Validate ==
    /\ pc = "received"
    /\ IF ValidationErrors(body) # {}
       THEN /\ Finish([status_code |-> 422, detail |-> "validation error", body |-> None])
            /\ UNCHANGED query
       ELSE /\ query' = Some(ProcessQuery(body))
            /\ pc' = "handler"
            /\ UNCHANGED response
    /\ UNCHANGED <<elsewhere, gemini_model, body, location, context_data, payloads, infos,
                   prompt, generated_text, calls, observed>>

\* variant: the handler does not look at the model handle
StartRequest_NoModelCheck ==
    /\ pc = "handler"
    /\ target_lat' = DEFAULT_LAT /\ target_lon' = DEFAULT_LON
    /\ location_name_for_context' = "India (default)"
    /\ context_data' = <<>>
    /\ pc' = "locate"
    /\ UNCHANGED <<coords, response>>
    /\ UNCHANGED <<elsewhere, gemini_model, body, query, payloads, infos, prompt,
                   generated_text, calls, observed>>

\* lines 204-215: the model check and the default location
StartRequest ==
    /\ pc = "handler"
    /\ IF ~gemini_model
       THEN /\ Finish(ErrorResponse(HTTPException(503,
                  "LLM Service (Gemini) is not configured or unavailable.")))
            /\ UNCHANGED <<location, context_data>>
       ELSE /\ target_lat' = DEFAULT_LAT /\ target_lon' = DEFAULT_LON
            /\ location_name_for_context' = "India (default)"
            /\ context_data' = <<>>
            /\ UNCHANGED coords
            /\ pc' = "locate"
            /\ UNCHANGED response
    /\ UNCHANGED <<elsewhere, gemini_model, body, query, payloads, infos, prompt,
                   generated_text, calls, observed>>

\* line 215 and line 227: the two texts of location_detail for the default point
DefaultDetail ==
    "Default location (" \o Fmt2f(DEFAULT_LAT) \o ", " \o Fmt2f(DEFAULT_LON) \o ")"
\* variant: a failed geocoding is not mentioned
FailedDetail_NoAnnotation(place) == DefaultDetail
FailedDetail(place) == DefaultDetail \o " (Geocoding failed for: " \o place \o ")"
\* line 223
ResolvedDetail(place, lat, lon) ==
    place \o " (" \o Fmt2f(lat) \o ", " \o Fmt2f(lon) \o ")"

\* lines 217, 228: no location was supplied, the defaults stand
SkipGeocoding ==
    /\ pc = "locate"
    /\ ~Truthy(Val(query).location_context)
    /\ context_data' = DictUpdate(context_data, << <<"location_info", Some(DefaultDetail)>> >>)
    /\ pc' = "weather"
    /\ UNCHANGED <<elsewhere, gemini_model, body, query, location, payloads, infos, prompt,
                   generated_text, response, calls, observed>>

\* lines 217-219: get_coordinates is called
CallGeocoder ==
    /\ pc = "locate"
    /\ Truthy(Val(query).location_context)
    /\ calls' = Append(calls, Call("get_coordinates", Val(Val(query).location_context),
                                   0, 0, <<>>, "", 0))
    /\ pc' = "geocoding"
    /\ UNCHANGED <<elsewhere, gemini_model, body, query, location, context_data, payloads, infos,
                   prompt, generated_text, response, observed>>

\* lines 219-228: get_coordinates returns
ReturnGeocoder(geo) ==
    /\ pc = "geocoding"
    /\ geo_outcome' = Some(geo)
    /\ LET place == Val(Val(query).location_context)
           result == get_coordinates(place, geo)
       IN IF "raised" \in DOMAIN result
          THEN /\ Finish(ErrorResponse(result.raised))
               /\ UNCHANGED <<location, context_data>>
          ELSE /\ coords' = Some(result)
               /\ IF "latitude" \in DOMAIN result
                  THEN /\ target_lat' = result.latitude
                       /\ target_lon' = result.longitude
                       /\ location_name_for_context' = place
                       /\ context_data' = DictUpdate(context_data,
                            << <<"location_info",
                                 Some(ResolvedDetail(place, result.latitude,
                                                     result.longitude))>> >>)
                  ELSE /\ context_data' = DictUpdate(context_data,
                            << <<"location_info", Some(FailedDetail(place))>> >>)
                       /\ UNCHANGED <<target_lat, target_lon,
                                      location_name_for_context>>
               /\ pc' = "weather"
               /\ UNCHANGED response
    /\ UNCHANGED <<elsewhere, gemini_model, body, query, payloads, infos, prompt,
                   generated_text, calls, returned, llm_outcome>>

\* variant: the weather helper is called for every request
WeatherWanted_Always == TRUE

\* line 242: the condition under which the weather helper is called
WeatherWanted ==
    /\ Truthy(Val(query).location_context)
    /\ ~Contains(Val(DictGet(context_data, "location_info", None)), "Geocoding failed")

\* the end of a try block of fetch_all_context: a completed block assigns its
\* summary, "except Exception" leaves None, anything else leaves the handler
Settle(r, info_next, next) ==
    IF r.exc = None
    THEN info_next = r.info /\ pc' = next /\ UNCHANGED response
    ELSE IF ExceptException(Val(r.exc))
    THEN info_next = None /\ pc' = next /\ UNCHANGED response
    ELSE info_next = None /\ Finish(ErrorResponse(Val(r.exc)))

\* lines 241-242: weather_info stays None
SkipWeather ==
    /\ pc = "weather"
    /\ ~WeatherWanted
    /\ pc' = "quakes"
    /\ UNCHANGED <<elsewhere, gemini_model, body, query, location, context_data, payloads, infos,
                   prompt, generated_text, response, calls, observed>>

\* line 245: get_city_weather is called
CallWeather ==
    /\ pc = "weather"
    /\ WeatherWanted
    /\ calls' = Append(calls, Call("get_city_weather", location_name_for_context,
                                   0, 0, <<>>, "", 0))
    /\ returned' = [returned EXCEPT !["weather"] = "pending"]
    /\ pc' = "weather_wait"
    /\ UNCHANGED <<elsewhere, gemini_model, body, query, location, context_data, payloads, infos,
                   prompt, generated_text, response, geo_outcome, llm_outcome>>

\* lines 245-251: get_city_weather returns
ReturnWeather(ext) ==
    /\ pc = "weather_wait"
    /\ LET data == get_city_weather(location_name_for_context, ext)
       IN /\ weather_data' = Some(data)
          /\ returned' = [returned EXCEPT !["weather"] =
                 IF "error" \in DOMAIN data THEN "error" ELSE Returned(data, <<data>>)]
          /\ Settle(WeatherBlock(data, location_name_for_context), weather_info', "quakes")
    /\ UNCHANGED <<elsewhere, gemini_model, body, query, location, context_data, quakes, events,
                   news, quake_info, event_info, news_info, prompt, generated_text,
                   calls, geo_outcome, llm_outcome>>

\* variant: the seismic helper is always asked about the default centroid
CallQuakes_DefaultPoint ==
    /\ pc = "quakes"
    /\ calls' = Append(calls, Call("get_recent_earthquakes_near_location", "",
                                   DEFAULT_LAT, DEFAULT_LON, <<>>, "", 0))
    /\ returned' = [returned EXCEPT !["seismic"] = "pending"]
    /\ pc' = "quakes_wait"
    /\ UNCHANGED <<elsewhere, gemini_model, body, query, location, context_data, payloads, infos,
                   prompt, generated_text, response, geo_outcome, llm_outcome>>

\* line 257: get_recent_earthquakes_near_location is called
CallQuakes ==
    /\ pc = "quakes"
    /\ calls' = Append(calls, Call("get_recent_earthquakes_near_location", "",
                                   target_lat, target_lon, <<>>, "", 0))
    /\ returned' = [returned EXCEPT !["seismic"] = "pending"]
    /\ pc' = "quakes_wait"
    /\ UNCHANGED <<elsewhere, gemini_model, body, query, location, context_data, payloads, infos,
                   prompt, generated_text, response, geo_outcome, llm_outcome>>

\* lines 257-262: get_recent_earthquakes_near_location returns
ReturnQuakes(ext) ==
    /\ pc = "quakes_wait"
    /\ LET data == get_recent_earthquakes_near_location(target_lat, target_lon, ext)
       IN /\ quakes' = Some(data)
          /\ returned' = [returned EXCEPT !["seismic"] =
                 IF "error" \in DOMAIN data THEN "error" ELSE Returned(data, data.earthquakes)]
          /\ Settle(QuakeBlock(data), quake_info', "events")
    /\ UNCHANGED <<elsewhere, gemini_model, body, query, location, context_data, weather_data,
                   events, news, weather_info, event_info, news_info, prompt,
                   generated_text, calls, geo_outcome, llm_outcome>>

\* line 268: get_natural_events is called
CallEvents ==
    /\ pc = "events"
    /\ calls' = Append(calls, Call("get_natural_events", "", 0, 0, INDIA_BBOX, "", 5))
    /\ returned' = [returned EXCEPT !["events"] = "pending"]
    /\ pc' = "events_wait"
    /\ UNCHANGED <<elsewhere, gemini_model, body, query, location, context_data, payloads, infos,
                   prompt, generated_text, response, geo_outcome, llm_outcome>>

\* lines 268-273: get_natural_events returns
ReturnEvents(ext) ==
    /\ pc = "events_wait"
    /\ LET data == get_natural_events(10, INDIA_BBOX, 5, ext)
       IN /\ events' = Some(data)
          /\ returned' = [returned EXCEPT !["events"] =
                 IF "error" \in DOMAIN data THEN "error" ELSE Returned(data, data.events)]
          /\ Settle(EventBlock(data), event_info', "news")
    /\ UNCHANGED <<elsewhere, gemini_model, body, query, location, context_data, weather_data,
                   quakes, news, weather_info, quake_info, news_info, prompt,
                   generated_text, calls, geo_outcome, llm_outcome>>

\* lines 280-281: get_disaster_news is called
CallNews ==
    /\ pc = "news"
    /\ calls' = Append(calls, Call("get_disaster_news", "", 0, 0, <<>>,
                                   NewsQueryTerms(Val(query).text_input,
                                                  Val(query).location_context,
                                                  location_name_for_context), 3))
    /\ returned' = [returned EXCEPT !["news"] = "pending"]
    /\ pc' = "news_wait"
    /\ UNCHANGED <<elsewhere, gemini_model, body, query, location, context_data, payloads, infos,
                   prompt, generated_text, response, geo_outcome, llm_outcome>>

\* lines 281-286: get_disaster_news returns
ReturnNews(ext) ==
    /\ pc = "news_wait"
    /\ LET data == get_disaster_news(calls[Len(calls)].text, 3, ext)
       IN /\ news' = Some(data)
          /\ returned' = [returned EXCEPT !["news"] =
                 IF "error" \in DOMAIN data THEN "error" ELSE Returned(data, data.articles)]
          /\ Settle(NewsBlock(data), news_info', "compile")
    /\ UNCHANGED <<elsewhere, gemini_model, body, query, location, context_data, weather_data,
                   quakes, events, weather_info, quake_info, event_info, prompt,
                   generated_text, calls, geo_outcome, llm_outcome>>

\* lines 289-301: fetch_all_context returns its dict, which is merged into
\* context_data; the locals of fetch_all_context are gone
CompileResults ==
    /\ pc = "compile"
    /\ context_data' = DictUpdate(context_data,
           CompiledResults(weather_info, quake_info, event_info, news_info))
    /\ weather_data' = None /\ quakes' = None /\ events' = None /\ news' = None
    /\ weather_info' = None /\ quake_info' = None /\ event_info' = None
    /\ news_info' = None
    /\ pc' = "prompt"
    /\ UNCHANGED <<elsewhere, gemini_model, body, query, location, prompt, generated_text,
                   response, calls, observed>>

\* lines 304-318
BuildPrompt(now) ==
    /\ pc = "prompt"
    /\ context_lines' = ContextLines(context_data)
    /\ context_string' = Join("\n", context_lines')
    /\ final_prompt' = FinalPrompt(context_data, context_string',
                                   Val(query).text_input, now)
    /\ pc' = "llm"
    /\ UNCHANGED <<elsewhere, gemini_model, body, query, location, context_data, payloads, infos,
                   generated_text, response, calls, observed>>

\* variant: the LLM is called as soon as the context is merged
CallLLM_BeforePrompt ==
    /\ pc \in {"prompt", "llm"}
    /\ generated_text' = "Error: LLM call failed."
    /\ calls' = Append(calls, Call("generate_content_async", "", 0, 0, <<>>,
                                   final_prompt, Val(query).max_new_tokens))
    /\ pc' = "llm_wait"
    /\ UNCHANGED <<elsewhere, gemini_model, body, query, location, context_data, payloads, infos,
                   prompt, response, observed>>

\* lines 326-345: generate_content_async is called
CallLLM ==
    /\ pc = "llm"
    /\ generated_text' = "Error: LLM call failed."
    /\ calls' = Append(calls, Call("generate_content_async", "", 0, 0, <<>>,
                                   final_prompt, Val(query).max_new_tokens))
    /\ pc' = "llm_wait"
    /\ UNCHANGED <<elsewhere, gemini_model, body, query, location, context_data, payloads, infos,
                   prompt, response, observed>>

\* variant: a raised LLM call is made again
ReturnLLM_RetryOnRaise(llm) ==
    /\ pc = "llm_wait"
    /\ llm_outcome' = Some(llm)
    /\ LET r == LlmTry(llm)
       IN /\ generated_text' = r.generated_text
          /\ IF r.exc = None
             THEN Finish(OkResponse(Val(query), context_data, r.generated_text))
             ELSE IF llm.kind = "raise"
             THEN pc' = "llm" /\ UNCHANGED response
             ELSE Finish(ErrorResponse(Val(r.exc)))
    /\ UNCHANGED <<elsewhere, gemini_model, body, query, location, context_data, payloads, infos,
                   prompt, calls, geo_outcome, returned>>

\* lines 336-386: generate_content_async returns or raises
ReturnLLM(llm) ==
    /\ pc = "llm_wait"
    /\ llm_outcome' = Some(llm)
    /\ LET r == LlmTry(llm)
       IN /\ generated_text' = r.generated_text
          /\ IF r.exc = None
             THEN Finish(OkResponse(Val(query), context_data, r.generated_text))
             ELSE Finish(ErrorResponse(Val(r.exc)))
    /\ UNCHANGED <<elsewhere, gemini_model, body, query, location, context_data, payloads, infos,
                   prompt, calls, geo_outcome, returned>>

Next ==
    \/ Validate
    \/ StartRequest
    \/ SkipGeocoding
    \/ CallGeocoder
    \/ \E geo \in GeocodeOutcomes : ReturnGeocoder(geo)
    \/ SkipWeather
    \/ CallWeather
    \/ \E ext \in WeatherOutcomes : ReturnWeather(ext)
    \/ CallQuakes
    \/ \E ext \in QuakeOutcomes : ReturnQuakes(ext)
    \/ CallEvents
    \/ \E ext \in EventOutcomes : ReturnEvents(ext)
    \/ CallNews
    \/ \E ext \in NewsOutcomes : ReturnNews(ext)
    \/ CompileResults
    \/ \E now \in Timestamps : BuildPrompt(now)
    \/ CallLLM
    \/ \E llm \in LlmOutcomes : ReturnLLM(llm)

Spec == Init /\ [][Next]_vars

(***************************************************************************)
(* Progress.  The handler's own steps are taken once they are enabled.  A  *)
(* call settles when something bounds it: requests.get(..., timeout=15) of *)
(* the seismic, events and news helpers returns or raises in time          *)
(* (src/get_earthquakes.py:29, src/get_events.py:26, src/get_news.py:27);  *)
(* geocode() and generate_content_async() are given no timeout by this     *)
(* code and are taken to be bounded by the defaults of their client        *)
(* libraries.  requests.get(complete_url) of src/get_weather.py:18 has no  *)
(* timeout and requests applies none, so nothing makes it return.          *)
(***************************************************************************)
HandlerFairness ==
    /\ WF_vars(Validate) /\ WF_vars(StartRequest)
    /\ WF_vars(SkipGeocoding) /\ WF_vars(CallGeocoder)
    /\ WF_vars(SkipWeather) /\ WF_vars(CallWeather)
    /\ WF_vars(CallQuakes) /\ WF_vars(CallEvents) /\ WF_vars(CallNews)
    /\ WF_vars(CompileResults)
    /\ WF_vars(\E now \in Timestamps : BuildPrompt(now))
    /\ WF_vars(CallLLM)

TimeoutFairness ==
    /\ WF_vars(\E ext \in QuakeOutcomes : ReturnQuakes(ext))
    /\ WF_vars(\E ext \in EventOutcomes : ReturnEvents(ext))
    /\ WF_vars(\E ext \in NewsOutcomes : ReturnNews(ext))

LibraryFairness ==
    /\ WF_vars(\E geo \in GeocodeOutcomes : ReturnGeocoder(geo))
    /\ WF_vars(\E llm \in LlmOutcomes : ReturnLLM(llm))

FairSpec == Spec /\ HandlerFairness /\ TimeoutFairness /\ LibraryFairness

(***************************************************************************)
(* The helpers on their own: one helper is applied to its arguments and to *)
(* an outcome of its external call, among them bodies that are not JSON    *)
(* (response.json() raises ValueError), bodies with parts missing and,     *)
(* from raise_for_status(), a bad HTTP status.  The result is held in the  *)
(* variable the handler would put it in.                                   *)
(***************************************************************************)
NotJson == Exc("ValueError", "Expecting value: line 1 column 1 (char 0)")
BadStatus == Exc("RequestException", "503 Server Error: Service Unavailable for url")

FurtherGeocode ==
    { [kind |-> "raise", latitude |-> 0, longitude |-> 0, exc |-> NotJson] }
FurtherWeather ==
    { [kind |-> "raise", exc |-> NotJson, data |-> NoBody],
      [kind |-> "json", exc |-> Exc("", ""), data |-> NoBody],
      [kind |-> "json", exc |-> Exc("", ""),
       data |-> OwmBody(Some(200), None, None, None)],
      [kind |-> "json", exc |-> Exc("", ""),
       data |-> OwmBody(Some(200), None, Some("Kolkata"), Some(<<>>))] }
FurtherQuakes ==
    { [kind |-> "raise", exc |-> NotJson, features |-> <<>>],
      [kind |-> "raise", exc |-> BadStatus, features |-> <<>>],
      [kind |-> "json", exc |-> Exc("", ""),
       features |-> <<[QuakeFeature(1, TRUE) EXCEPT !.coordinates = <<860001, 280000>>]>>],
      [kind |-> "json", exc |-> Exc("", ""),
       features |-> <<QuakeFeature(1, TRUE),
                      [QuakeFeature(2, TRUE) EXCEPT !.coordinates = <<>>]>>] }
FurtherEvents ==
    { [kind |-> "raise", exc |-> NotJson, events |-> <<>>],
      [kind |-> "raise", exc |-> BadStatus, events |-> <<>>],
      [kind |-> "json", exc |-> Exc("", ""),
       events |-> <<[EonetEvent(1, TRUE) EXCEPT !.geometry = <<>>]>>],
      [kind |-> "json", exc |-> Exc("", ""),
       events |-> <<[EonetEvent(1, TRUE) EXCEPT !.categories = <<>>]>>] }
FurtherNews ==
    { [kind |-> "raise", exc |-> NotJson, data |-> NewsBody("", None, 0)] }

Places == {"Kolkata", "Atlantis", ""}
Points == {<<DEFAULT_LAT, DEFAULT_LON>>, <<225726, 883639>>}
EventArgs == {<<10, INDIA_BBOX, 5>>, <<7, <<>>, 20>>}
NewsQueries == {"India flood OR cyclone", "(Is it safe?) AND (India) AND (disaster)"}

\* what an application of a helper leaves alone
untouched ==
    <<elsewhere, gemini_model, body, query, target_lat, target_lon, location_name_for_context,
      context_data, infos, prompt, generated_text, response, observed>>

AdapterInit ==
    /\ pc = "adapter"
    /\ gemini_model = TRUE
    /\ body = [text_input |-> None, location_context |-> None, max_new_tokens |-> None]
    /\ query = None
    /\ target_lat = 0 /\ target_lon = 0
    /\ location_name_for_context = ""
    /\ coords = None
    /\ context_data = <<>>
    /\ weather_data = None /\ quakes = None /\ events = None /\ news = None
    /\ weather_info = None /\ quake_info = None /\ event_info = None /\ news_info = None
    /\ context_lines = <<>> /\ context_string = "" /\ final_prompt = ""
    /\ generated_text = ""
    /\ response = None
    /\ calls = <<>>
    /\ geo_outcome = None
    /\ returned = [s \in Sources |-> "not_called"]
    /\ llm_outcome = None
    /\ NoRequest /\ NoHandlers /\ NoSms /\ NoCnn

ApplyGeocoder(place, geo) ==
    /\ pc = "adapter"
    /\ calls' = Append(calls, Call("get_coordinates", place, 0, 0, <<>>, "", 0))
    /\ coords' = Some(get_coordinates(place, geo))
    /\ pc' = "returned"
    /\ UNCHANGED <<untouched, payloads>>

ApplyWeather(city_name, ext) ==
    /\ pc = "adapter"
    /\ calls' = Append(calls, Call("get_city_weather", city_name, 0, 0, <<>>, "", 0))
    /\ weather_data' = Some(get_city_weather(city_name, ext))
    /\ pc' = "returned"
    /\ UNCHANGED <<untouched, coords, quakes, events, news>>

ApplyQuakes(point, ext) ==
    /\ pc = "adapter"
    /\ calls' = Append(calls, Call("get_recent_earthquakes_near_location", "",
                                   point[1], point[2], <<>>, "", 0))
    /\ quakes' = Some(get_recent_earthquakes_near_location(point[1], point[2], ext))
    /\ pc' = "returned"
    /\ UNCHANGED <<untouched, coords, weather_data, events, news>>

ApplyEvents(args, ext) ==
    /\ pc = "adapter"
    /\ calls' = Append(calls, Call("get_natural_events", "", 0, 0, args[2], "", args[3]))
    /\ events' = Some(get_natural_events(args[1], args[2], args[3], ext))
    /\ pc' = "returned"
    /\ UNCHANGED <<untouched, coords, weather_data, quakes, news>>

ApplyNews(query_string, ext) ==
    /\ pc = "adapter"
    /\ calls' = Append(calls, Call("get_disaster_news", "", 0, 0, <<>>, query_string, 3))
    /\ news' = Some(get_disaster_news(query_string, 3, ext))
    /\ pc' = "returned"
    /\ UNCHANGED <<untouched, coords, weather_data, quakes, events>>

AdapterNext ==
    \/ \E place \in Places, geo \in GeocodeOutcomes \cup FurtherGeocode :
          ApplyGeocoder(place, geo)
    \/ \E city_name \in Places, ext \in WeatherOutcomes \cup FurtherWeather :
          ApplyWeather(city_name, ext)
    \/ \E point \in Points, ext \in QuakeOutcomes \cup FurtherQuakes :
          ApplyQuakes(point, ext)
    \/ \E args \in EventArgs, ext \in EventOutcomes \cup FurtherEvents :
          ApplyEvents(args, ext)
    \/ \E query_string \in NewsQueries, ext \in NewsOutcomes \cup FurtherNews :
          ApplyNews(query_string, ext)

AdapterSpec == AdapterInit /\ [][AdapterNext]_vars

(***************************************************************************)
(* The summaries of fetch_all_context on their own: a helper is applied to *)
(* a body with up to MaxItems items, also more than the call asked for,    *)
(* and the try block of lines 254-262 resp. 277-286 builds its summary.    *)
(***************************************************************************)
ManyQuakes ==
    { [kind |-> "json", exc |-> Exc("", ""), features |-> QuakeFeatures(n, b)] :
        n \in 0..MaxItems, b \in BOOLEAN }
ManyNews ==
    UNION { { [kind |-> "json", exc |-> Exc("", ""), data |-> NewsBody("ok", t, n)] :
                t \in {Some(n), None} } : n \in 0..MaxItems }

SummariseQuakes ==
    /\ pc = "returned"
    /\ quakes # None
    /\ Settle(QuakeBlock(Val(quakes)), quake_info', "summarised")
    /\ UNCHANGED <<elsewhere, gemini_model, body, query, location, context_data,
                   payloads, weather_info, event_info, news_info, prompt,
                   generated_text, calls, observed>>

SummariseNews ==
    /\ pc = "returned"
    /\ news # None
    /\ Settle(NewsBlock(Val(news)), news_info', "summarised")
    /\ UNCHANGED <<elsewhere, gemini_model, body, query, location, context_data,
                   payloads, weather_info, quake_info, event_info, prompt,
                   generated_text, calls, observed>>

SummaryNext ==
    \/ \E point \in Points, ext \in ManyQuakes : ApplyQuakes(point, ext)
    \/ \E query_string \in NewsQueries, ext \in ManyNews : ApplyNews(query_string, ext)
    \/ SummariseQuakes
    \/ SummariseNews

SummarySpec == AdapterInit /\ [][SummaryNext]_vars

(***************************************************************************)
(* src/fine_tune.py, lines 47-193: the API key dependency, the status      *)
(* endpoint and the direct context endpoints.  A request is a record of    *)
(* method, path, X-API-Key header (None when absent) and decoded JSON.     *)
(*                                                                         *)
(* FastAPI runs, for a path operation, the dependencies given to the app   *)
(* followed by those given to the route decorator; a dependency that       *)
(* raises ends the request before the body is validated and before the     *)
(* handler runs.                                                           *)
(***************************************************************************)
API_KEY_FASTAPI == "s3cret"

\* line 94: FastAPI(..., dependencies=[Depends(get_api_key)])
AppDependencies == <<"get_api_key">>
\* line 127: @app.get("/", ..., dependencies=[]); the other routes name none
RouteDependencies(path) == <<>>
\* the dependencies FastAPI runs for a route
Dependencies(path) == AppDependencies \o RouteDependencies(path)

\* get_api_key is among the dependencies of the route
get_api_key_Applies(path) ==
    \E i \in 1..Len(Dependencies(path)) : Dependencies(path)[i] = "get_api_key"

\* lines 77-86: the exception get_api_key raises, None when it returns the key
get_api_key(key) ==
    IF key = None
    THEN Some(HTTPException(401, "API Key required"))
    ELSE IF Val(key) = API_KEY_FASTAPI THEN None
    ELSE Some(HTTPException(401, "Invalid API Key"))

Paths ==
    {"/", "/context/weather", "/context/earthquakes", "/context/natural_events",
     "/context/news", "/process"}
Keys == {None, Some(""), Some("guess"), Some(API_KEY_FASTAPI)}

\* the JSON bodies posted to a path; an absent field is None
JsonBodies(path) ==
    CASE path = "/" -> {[city |-> None]}
      [] path = "/context/weather" ->
            {[city |-> c] : c \in {None, Some("Kolkata"), Some("Atlantis")}}
      [] path = "/context/earthquakes" ->
            {[latitude |-> p[1], longitude |-> p[2], days |-> d] :
                p \in {<<None, None>>, <<Some(225726), Some(883639)>>},
                d \in {None, Some(0), Some(7)}}
      [] path = "/context/natural_events" ->
            {[category |-> None, days |-> d] : d \in {None, Some(91), Some(10)}}
      [] path = "/context/news" ->
            {[search_query |-> q, page_size |-> n] :
                q \in {None, Some("India flood OR cyclone")},
                n \in {None, Some(21)}}
      [] path = "/process" ->
            {[text_input |-> Some("Is Kolkata safe from Cyclone Remal?"),
              location_context |-> Some("Kolkata"), max_new_tokens |-> None]}

Requests ==
    UNION { {[method |-> IF path = "/" THEN "GET" ELSE "POST", path |-> path,
              key |-> key, json |-> json] : key \in Keys, json \in JsonBodies(path)} :
            path \in Paths }

\* lines 99-117: WeatherQuery, EarthquakeQuery, EventQuery, NewsQuery
DirectValidationErrors(path, json) ==
    CASE path = "/context/weather" ->
            IF json.city = None THEN {"city: field required"} ELSE {}
      [] path = "/context/earthquakes" ->
            IF json.days # None /\ ~(Val(json.days) \in 1..90)
            THEN {"days: out of range"} ELSE {}
      [] path = "/context/natural_events" ->
            IF json.days # None /\ ~(Val(json.days) \in 1..90)
            THEN {"days: out of range"} ELSE {}
      [] path = "/context/news" ->
            (IF json.search_query = None THEN {"search_query: field required"} ELSE {})
            \cup (IF json.page_size # None /\ ~(Val(json.page_size) \in 1..20)
                  THEN {"page_size: out of range"} ELSE {})
      [] OTHER -> {}

\* the response of a handler that returns data
JsonResponse(data) == [status_code |-> 200, detail |-> "", body |-> Some(data)]

\* variant: the 404 test comes before the API Key test
WeatherErrorResponse_NotFoundFirst(city, error) ==
    IF Contains(error, "404")
    THEN HTTPException(404, "Weather Error: City '" \o city \o "' not found.")
    ELSE IF Contains(error, "API Key")
    THEN HTTPException(500, "Weather API Configuration Error: " \o error)
    ELSE HTTPException(400, "Weather Error: " \o error)

\* lines 141-151: the status of an error of get_city_weather
WeatherErrorResponse(city, error) ==
    IF Contains(error, "API Key")
    THEN HTTPException(500, "Weather API Configuration Error: " \o error)
    ELSE IF Contains(error, "404")
    THEN HTTPException(404, "Weather Error: City '" \o city \o "' not found.")
    ELSE HTTPException(400, "Weather Error: " \o error)

\* lines 185-191: the status of an error of get_disaster_news
NewsErrorResponse(error) ==
    IF Contains(error, "API Key")
    THEN HTTPException(500, "NewsAPI Configuration Error: " \o error)
    ELSE HTTPException(400, "NewsAPI Error: " \o error)

\* what the service can answer to the weather endpoint: the outcomes of
\* /process and an error body whose message names both the key and 404
DirectWeatherOutcomes ==
    WeatherOutcomes \cup
    { [kind |-> "json", exc |-> Exc("", ""),
       data |-> OwmBody(Some(404), Some("API Key accepted, 404 city not found"),
                        None, None)],
      [kind |-> "json", exc |-> Exc("", ""),
       data |-> OwmBody(Some(404), Some("city not found (404)"), None, None)] }

\* what a step of these endpoints leaves alone
unrouted ==
    <<handlers, sms, cnn, gemini_model, query, location, context_data, infos, prompt,
      generated_text, observed>>

EndpointInit ==
    /\ pc = "arrived"
    /\ request \in {Some(r) : r \in Requests}
    /\ gemini_model = TRUE
    /\ body = [text_input |-> None, location_context |-> None, max_new_tokens |-> None]
    /\ query = None
    /\ target_lat = 0 /\ target_lon = 0
    /\ location_name_for_context = ""
    /\ coords = None
    /\ context_data = <<>>
    /\ weather_data = None /\ quakes = None /\ events = None /\ news = None
    /\ weather_info = None /\ quake_info = None /\ event_info = None /\ news_info = None
    /\ context_lines = <<>> /\ context_string = "" /\ final_prompt = ""
    /\ generated_text = ""
    /\ response = None
    /\ calls = <<>>
    /\ geo_outcome = None
    /\ returned = [s \in Sources |-> "not_called"]
    /\ llm_outcome = None
    /\ NoHandlers /\ NoSms /\ NoCnn

\* the dependencies of the route run; get_api_key may raise
Authorize ==
    /\ pc = "arrived"
    /\ LET r == Val(request)
           raised == IF get_api_key_Applies(r.path) THEN get_api_key(r.key) ELSE None
       IN IF raised # None
          THEN Finish(ErrorResponse(Val(raised)))
          ELSE pc' = "authorized" /\ UNCHANGED response
    /\ UNCHANGED <<unrouted, request, body, payloads, calls>>

\* the body is validated against the model of the route
ValidateDirect ==
    /\ pc = "authorized"
    /\ Val(request).path # "/process"
    /\ IF DirectValidationErrors(Val(request).path, Val(request).json) # {}
       THEN Finish([status_code |-> 422, detail |-> "validation error", body |-> None])
       ELSE pc' = "dispatch" /\ UNCHANGED response
    /\ UNCHANGED <<unrouted, request, body, payloads, calls>>

\* /process: the body goes to the handler of process_with_llm_context
HandOver ==
    /\ pc = "authorized"
    /\ Val(request).path = "/process"
    /\ body' = Val(request).json
    /\ pc' = "received"
    /\ UNCHANGED <<unrouted, request, payloads, calls, response>>

\* lines 127-131
read_root ==
    /\ pc = "dispatch"
    /\ Val(request).path = "/"
    /\ Finish(JsonResponse([message |-> "Disaster Management Assistant API is running."]))
    /\ UNCHANGED <<unrouted, request, body, payloads, calls>>

\* lines 136-152
fetch_weather_direct(ext) ==
    /\ pc = "dispatch"
    /\ Val(request).path = "/context/weather"
    /\ LET city == Val(Val(request).json.city)
           data == get_city_weather(city, ext)
       IN /\ calls' = Append(calls, Call("get_city_weather", city, 0, 0, <<>>, "", 0))
          /\ weather_data' = Some(data)
          /\ IF "error" \in DOMAIN data
             THEN Finish(ErrorResponse(WeatherErrorResponse(city, data.error)))
             ELSE Finish(JsonResponse(data))
    /\ UNCHANGED <<unrouted, request, body, quakes, events, news>>

\* lines 154-166
fetch_earthquakes_direct(ext) ==
    /\ pc = "dispatch"
    /\ Val(request).path = "/context/earthquakes"
    /\ LET json == Val(request).json
           latitude == IF json.latitude = None THEN DEFAULT_LAT ELSE Val(json.latitude)
           longitude == IF json.longitude = None THEN DEFAULT_LON ELSE Val(json.longitude)
           data == get_recent_earthquakes_near_location(latitude, longitude, ext)
       IN /\ calls' = Append(calls, Call("get_recent_earthquakes_near_location", "",
                                         latitude, longitude, <<>>, "", 0))
          /\ quakes' = Some(data)
          /\ IF "error" \in DOMAIN data
             THEN Finish(ErrorResponse(HTTPException(500,
                      "Earthquake API Error: " \o data.error)))
             ELSE Finish(JsonResponse(data))
    /\ UNCHANGED <<unrouted, request, body, weather_data, events, news>>

\* lines 168-178
fetch_events_direct(ext) ==
    /\ pc = "dispatch"
    /\ Val(request).path = "/context/natural_events"
    /\ LET json == Val(request).json
           days == IF json.days = None THEN 7 ELSE Val(json.days)
           data == get_natural_events(days, INDIA_BBOX, 20, ext)
       IN /\ calls' = Append(calls, Call("get_natural_events", "", 0, 0, INDIA_BBOX,
                                         "", 20))
          /\ events' = Some(data)
          /\ IF "error" \in DOMAIN data
             THEN Finish(ErrorResponse(HTTPException(500,
                      "EONET API Error: " \o data.error)))
             ELSE Finish(JsonResponse(data))
    /\ UNCHANGED <<unrouted, request, body, weather_data, quakes, news>>

\* lines 180-193
fetch_news_direct(ext) ==
    /\ pc = "dispatch"
    /\ Val(request).path = "/context/news"
    /\ LET json == Val(request).json
           page_size == IF json.page_size = None THEN 5 ELSE Val(json.page_size)
           data == get_disaster_news(Val(json.search_query), page_size, ext)
       IN /\ calls' = Append(calls, Call("get_disaster_news", "", 0, 0, <<>>,
                                         Val(json.search_query), page_size))
          /\ news' = Some(data)
          /\ IF "error" \in DOMAIN data
             THEN Finish(ErrorResponse(NewsErrorResponse(data.error)))
             ELSE Finish(JsonResponse(data))
    /\ UNCHANGED <<unrouted, request, body, weather_data, quakes, events>>

EndpointNext ==
    \/ Authorize
    \/ ValidateDirect
    \/ HandOver
    \/ read_root
    \/ \E ext \in DirectWeatherOutcomes : fetch_weather_direct(ext)
    \/ \E ext \in QuakeOutcomes \cup FurtherQuakes : fetch_earthquakes_direct(ext)
    \/ \E ext \in EventOutcomes \cup FurtherEvents : fetch_events_direct(ext)
    \/ \E ext \in NewsOutcomes : fetch_news_direct(ext)

EndpointSpec == EndpointInit /\ [][EndpointNext]_vars

(***************************************************************************)
(* The state of the /process handler while another module is exercised.    *)
(***************************************************************************)
handler ==
    <<gemini_model, body, query, location, context_data, payloads, infos, prompt,
      generated_text, observed>>
HandlerIdle ==
    /\ gemini_model = TRUE
    /\ body = [text_input |-> None, location_context |-> None, max_new_tokens |-> None]
    /\ query = None
    /\ target_lat = 0 /\ target_lon = 0
    /\ location_name_for_context = ""
    /\ coords = None
    /\ context_data = <<>>
    /\ weather_data = None /\ quakes = None /\ events = None /\ news = None
    /\ weather_info = None /\ quake_info = None /\ event_info = None /\ news_info = None
    /\ context_lines = <<>> /\ context_string = "" /\ final_prompt = ""
    /\ generated_text = ""
    /\ geo_outcome = None
    /\ returned = [s \in Sources |-> "not_called"]
    /\ llm_outcome = None

(***************************************************************************)
(* src/send_sms_twilio.py: send_disaster_alert_sms.  The arguments are     *)
(* strings or None; the return value is kept in response.                  *)
(***************************************************************************)
DigitChars == {"0", "1", "2", "3", "4", "5", "6", "7", "8", "9"}
\* str.isdigit(): not empty and every character a digit
isdigit(s) == Len(s) > 0 /\ \A i \in 1..Len(s) : SubSeq(s, i, i) \in DigitChars
\* str.startswith(p)
startswith(s, p) == Len(s) >= Len(p) /\ SubSeq(s, 1, Len(p)) = p

\* variant: only the leading '+' is tested
PhoneFormatOk_PlusOnly(number) == startswith(number, "+")

\* line 73, negated
PhoneFormatOk(number) ==
    startswith(number, "+") /\ isdigit(SubSeq(number, 2, Len(number)))

PhoneNumbers ==
    {None, Some(""), Some("+916381198548"), Some("+14155550100"), Some("916381198548"),
     Some("+91-6381198548"), Some("+91 63811 98548"), Some("+"), Some("+91XXXXXXXXXX")}
MessageBodies ==
    {None, Some(""), Some("Cyclone warning for Kolkata. Move to a shelter."),
     Some("Flood alert: stay away from the river.")}

\* line 88: the statuses of a created message, and two further ones of Twilio
MessageStatuses ==
    {"queued", "failed", "sent", "delivered", "undelivered", "accepted", "sending"}
TwilioOutcomes ==
    {[kind |-> "message", status |-> st, exc |-> Exc("", "")] : st \in MessageStatuses}
    \cup {[kind |-> "raise", status |-> "", exc |-> e] :
             e \in {Exc("TwilioRestException", "HTTP 400 error: Unable to create record"),
                    Exc("ConnectionError", "Connection aborted")}}

\* lines 62-75: TRUE when the function returns False before the try block
SmsRefused ==
    IF ~TWILIO_AVAILABLE THEN TRUE
    ELSE IF ~twilio_client THEN TRUE
    ELSE IF ~Truthy(to_phone_number) \/ ~Truthy(message_body) THEN TRUE
    ELSE ~PhoneFormatOk(Val(to_phone_number))

\* lines 92-102: the value returned after messages.create
SmsResult(outcome) ==
    IF outcome.kind = "raise" THEN FALSE
    ELSE outcome.status \in {"queued", "sent"}

Return(value) == pc' = "done" /\ response' = Some([value |-> value])

SmsInit ==
    /\ pc = "sms"
    /\ HandlerIdle
    /\ response = None
    /\ calls = <<>>
    /\ NoRequest /\ NoHandlers /\ NoCnn
    /\ TWILIO_AVAILABLE \in BOOLEAN
    /\ twilio_client \in BOOLEAN
    /\ twilio_client => TWILIO_AVAILABLE
    /\ to_phone_number \in PhoneNumbers
    /\ message_body \in MessageBodies
    /\ twilio_outcome = None

\* lines 62-75: one of the early returns
RefuseSms ==
    /\ pc = "sms"
    /\ SmsRefused
    /\ Return(FALSE)
    /\ UNCHANGED <<handler, request, handlers, sms, cnn, calls>>

\* lines 81-87: the call of twilio_client.messages.create
CallTwilio ==
    /\ pc = "sms"
    /\ ~SmsRefused
    /\ calls' = Append(calls, Call("messages.create", Val(to_phone_number), 0, 0, <<>>,
                                   Val(message_body), 0))
    /\ pc' = "twilio_wait"
    /\ UNCHANGED <<handler, request, handlers, sms, cnn, response>>

\* lines 88-102: the call returns a message or raises
ReturnTwilio(outcome) ==
    /\ pc = "twilio_wait"
    /\ twilio_outcome' = Some(outcome)
    /\ Return(SmsResult(outcome))
    /\ UNCHANGED <<handler, request, handlers, cnn, calls, TWILIO_AVAILABLE, twilio_client,
                   to_phone_number, message_body>>

SmsNext ==
    \/ RefuseSms
    \/ CallTwilio
    \/ \E outcome \in TwilioOutcomes : ReturnTwilio(outcome)

SmsSpec == SmsInit /\ [][SmsNext]_vars

(***************************************************************************)
(* src/image_analyzer.py: load_cnn_model and analyze_satellite_image.      *)
(* cnn_model is None or Some([units |-> output_shape[-1]]); class_labels   *)
(* is None or Some(the decoded JSON of the labels file).  What is on disk  *)
(* is read anew by every call.                                             *)
(***************************************************************************)
MaxUnits == 3
MaxLabels == 3
MaxCnnCalls == 3

JsonStr(v) == [type |-> "str", value |-> v]
JsonInt(n) == [type |-> "int", value |-> ToString(n)]
JsonList(items) == [type |-> "list", items |-> items]
JsonDict(items) == [type |-> "dict", items |-> items]

LabelList(n) == JsonList([i \in 1..n |-> JsonStr("class_" \o ToString(i))])

\* what json.load can give for the labels file
LabelFiles ==
    {LabelList(n) : n \in 0..MaxLabels}
    \cup {JsonList(<<JsonStr("no_cyclone"), JsonInt(1)>>),
          JsonList(<<JsonInt(0), JsonInt(1), JsonInt(2)>>),
          JsonDict(<<JsonStr("no_cyclone"), JsonStr("cyclone")>>),
          JsonStr("no_cyclone,cyclone")}

File(state, content) == [state |-> state, content |-> content]
NoContent == JsonStr("")

\* the directory, the model file (its content is the number of output units)
\* and the labels file; a corrupt file makes its loader raise
Disks ==
    {[dir |-> "fail", model |-> File("missing", 0), labels |-> File("missing", NoContent)],
     [dir |-> "ok", model |-> File("missing", 0), labels |-> File("missing", NoContent)],
     [dir |-> "ok", model |-> File("missing", 0), labels |-> File("ok", LabelList(2))],
     [dir |-> "ok", model |-> File("corrupt", 0), labels |-> File("ok", LabelList(2))]}
    \cup {[dir |-> "ok", model |-> File("ok", u), labels |-> l] :
             u \in 1..MaxUnits,
             l \in {File("missing", NoContent), File("corrupt", NoContent)}
                   \cup {File("ok", j) : j \in LabelFiles}}

\* line 76: isinstance(class_labels, list) and all(isinstance(label, str) ...)
ListOfStrings(json) ==
    /\ json.type = "list"
    /\ \A i \in 1..Len(json.items) : json.items[i].type = "str"

\* bool() of a decoded JSON value and of the two globals
JsonTruthy(json) == IF json.type = "str" THEN json.value # "" ELSE json.items # <<>>
ModelSet == cnn_model # None
LabelsSet == class_labels # None /\ JsonTruthy(Val(class_labels))

Loaded(m, l, value, read) ==
    [cnn_model |-> m, class_labels |-> l, value |-> value, read |-> read]

\* variant: the labels that failed a check stay in class_labels
Rejected_LabelsKept(m, json) == Loaded(Some(m), Some(json), FALSE, TRUE)

\* lines 77-79, 81-83, 85-87: the labels are invalidated and False returned
Rejected(m, json) == Loaded(Some(m), None, FALSE, TRUE)

\* lines 49-100: the globals after the call, the value returned and whether
\* tf.keras.models.load_model was called
LoadResult(disk) ==
    IF cnn_model # None /\ class_labels # None
    THEN Loaded(cnn_model, class_labels, TRUE, FALSE)
    ELSE IF ~TF_KERAS_AVAILABLE THEN Loaded(cnn_model, class_labels, FALSE, FALSE)
    ELSE IF disk.dir = "fail" THEN Loaded(cnn_model, class_labels, FALSE, FALSE)
    ELSE IF disk.model.state = "missing" THEN Loaded(cnn_model, class_labels, FALSE, FALSE)
    ELSE IF disk.model.state = "corrupt" THEN Loaded(None, None, FALSE, TRUE)
    ELSE LET m == [units |-> disk.model.content]
             json == disk.labels.content
         IN IF disk.labels.state = "missing" THEN Loaded(Some(m), class_labels, FALSE, TRUE)
            ELSE IF disk.labels.state = "corrupt" THEN Loaded(None, None, FALSE, TRUE)
            ELSE IF ~ListOfStrings(json) THEN Rejected(m, json)
            ELSE IF m.units # 1 /\ Len(json.items) # m.units THEN Rejected(m, json)
            ELSE IF m.units = 1 /\ Len(json.items) # 2 THEN Rejected(m, json)
            ELSE Loaded(Some(m), Some(json), TRUE, TRUE)

\* the entry of the log for a call of load_model resp. of predict
LoadCall(disk) == Call("load_model", disk.model.state, 0, 0, <<>>, "", disk.model.content)
PredictCall == Call("predict", "", 0, 0, Val(class_labels), "", Val(cnn_model).units)

\* the globals and the log after load_cnn_model
ApplyLoad(disk) ==
    LET r == LoadResult(disk)
    IN /\ cnn_model' = r.cnn_model
       /\ class_labels' = r.class_labels
       /\ calls' = IF r.read THEN Append(calls, LoadCall(disk)) ELSE calls

Answer(fn, value) == response' = Some([fn |-> fn, value |-> value])

\* lines 160-186: the label read off the scores, best being the index of
\* the highest score; indexing past the labels raises inside the try block
Interpretation(best) ==
    LET units == Val(cnn_model).units
        labels == Val(class_labels).items
    IN IF Val(class_labels).type # "list" THEN "CNN prediction failed: label lookup"
       ELSE IF units = 1
       THEN IF Len(labels) < 2 THEN "CNN prediction failed: list index out of range"
            ELSE labels[IF best > 1 THEN 2 ELSE 1].value
       ELSE IF Len(labels) = units
       THEN labels[IF best > units THEN units ELSE best].value
       ELSE "CNN output interpretation error due to label mismatch."

CnnInit ==
    /\ pc = "cnn_idle"
    /\ HandlerIdle
    /\ response = None
    /\ calls = <<>>
    /\ NoRequest /\ NoHandlers /\ NoSms
    /\ TF_KERAS_AVAILABLE \in BOOLEAN
    /\ cnn_model = None
    /\ class_labels = None

\* lines 44-100, called at startup or by any caller
load_cnn_model(disk) ==
    /\ pc \in {"cnn_idle", "fetching"}
    /\ Len(calls) < MaxCnnCalls
    /\ ApplyLoad(disk)
    /\ Answer("load_cnn_model", LoadResult(disk).value)
    /\ UNCHANGED <<handler, request, handlers, sms, TF_KERAS_AVAILABLE, pc>>

\* lines 132-138: the globals are tested, and loaded when one is not set
AnalyzeStart(disk) ==
    /\ pc = "cnn_idle"
    /\ Len(calls) < MaxCnnCalls
    /\ IF ~ModelSet \/ ~LabelsSet
       THEN /\ ApplyLoad(disk)
            /\ IF LoadResult(disk).value
               THEN pc' = "fetching" /\ UNCHANGED response
               ELSE /\ Answer("analyze_satellite_image",
                              "CNN model/labels not available or failed to load.")
                    /\ UNCHANGED pc
       ELSE /\ pc' = "fetching"
            /\ UNCHANGED <<cnn_model, class_labels, calls, response>>
    /\ UNCHANGED <<handler, request, handlers, sms, TF_KERAS_AVAILABLE>>

\* lines 139-189: the image arrives or not, is preprocessed or not, and the
\* model predicts
AnalyzeFinish(image, best) ==
    /\ pc = "fetching"
    /\ pc' = "cnn_idle"
    /\ IF image = "unreachable"
       THEN /\ Answer("analyze_satellite_image", "Failed to fetch image from URL: timeout")
            /\ UNCHANGED calls
       ELSE IF image = "unreadable"
       THEN /\ Answer("analyze_satellite_image", "Image preprocessing failed for CNN model.")
            /\ UNCHANGED calls
       ELSE /\ calls' = Append(calls, PredictCall)
            /\ Answer("analyze_satellite_image", Interpretation(best))
    /\ UNCHANGED <<handler, request, handlers, sms, cnn>>

CnnNext ==
    \/ \E disk \in Disks : load_cnn_model(disk)
    \/ \E disk \in Disks : AnalyzeStart(disk)
    \/ \E image \in {"unreachable", "unreadable", "ok"}, best \in 1..MaxUnits :
           AnalyzeFinish(image, best)

CnnSpec == CnnInit /\ [][CnnNext]_vars

(***************************************************************************)
(* src/fine_tune.py, lines 197-386: two /process requests served side by   *)
(* side.  process_with_llm_context is a coroutine; every call has its own  *)
(* frame of locals (query, context_data, target_lat, ..., final_prompt,     *)
(* generated_text), kept here in handlers[i].  The event loop may switch    *)
(* between the two coroutines where one awaits: on entering the httpx      *)
(* client of fetch_all_context and on generate_content_async; the helpers  *)
(* are synchronous, so the code between two awaits runs as one step.       *)
(***************************************************************************)
HandlerIds == {1, 2}

PairQueries ==
    {[text_input |-> "Is Kolkata safe from Cyclone Remal?",
      location_context |-> Some("Kolkata"), max_new_tokens |-> DefaultNewTokens],
     [text_input |-> "Were there earthquakes this week?",
      location_context |-> None, max_new_tokens |-> MinNewTokens]}

\* the answers the services give while the two requests run
PairGeocodes == GeocodeOutcomes
PairWeather ==
    {ext \in WeatherOutcomes : ext.kind = "raise" \/ ext.data.name # None}
PairQuakes == {ext \in QuakeOutcomes : ext.kind = "json" /\ ext.features = QuakeFeatures(1, TRUE)}
PairEvents == {ext \in EventOutcomes : ext.kind = "raise"}
PairNews ==
    {ext \in NewsOutcomes :
        ext.kind = "nokey" \/ (ext.kind = "json" /\ ext.data = NewsBody("ok", Some(1), 1))}
PairAnswers ==
    {[w |-> w, q |-> q, e |-> e, n |-> n] :
        w \in PairWeather, q \in PairQuakes, e \in PairEvents, n \in PairNews}
PairLlm ==
    {llm \in LlmOutcomes : llm.kind = "raise" \/ (llm.candidates = 1 /\ llm.text # None)}

\* lines 209-229: the locals after the location was determined
Located(q, geo) ==
    IF ~Truthy(q.location_context)
    THEN [raised |-> None, target_lat |-> DEFAULT_LAT, target_lon |-> DEFAULT_LON,
          location_name_for_context |-> "India (default)",
          location_detail |-> DefaultDetail]
    ELSE LET place == Val(q.location_context)
             result == get_coordinates(place, geo)
         IN IF "raised" \in DOMAIN result
            THEN [raised |-> Some(result.raised), target_lat |-> DEFAULT_LAT,
                  target_lon |-> DEFAULT_LON,
                  location_name_for_context |-> "India (default)",
                  location_detail |-> DefaultDetail]
            ELSE IF "latitude" \in DOMAIN result
            THEN [raised |-> None, target_lat |-> result.latitude,
                  target_lon |-> result.longitude,
                  location_name_for_context |-> place,
                  location_detail |-> ResolvedDetail(place, result.latitude,
                                                     result.longitude)]
            ELSE [raised |-> None, target_lat |-> DEFAULT_LAT, target_lon |-> DEFAULT_LON,
                  location_name_for_context |-> "India (default)",
                  location_detail |-> FailedDetail(place)]

\* the summary a try block of fetch_all_context leaves
InfoOf(r) == IF r.exc = None THEN r.info ELSE None

\* lines 238-294: the dict fetch_all_context returns for a frame h
Fetched(h, cd, ext) ==
    LET name == h.location_name_for_context
        wanted == /\ Truthy(h.query.location_context)
                  /\ ~Contains(Val(DictGet(cd, "location_info", None)), "Geocoding failed")
        weather_blk == IF wanted
                       THEN InfoOf(WeatherBlock(get_city_weather(name, ext.w), name))
                       ELSE None
        quake_blk == InfoOf(QuakeBlock(get_recent_earthquakes_near_location(
                                h.target_lat, h.target_lon, ext.q)))
        event_blk == InfoOf(EventBlock(get_natural_events(10, INDIA_BBOX, 5, ext.e)))
        news_blk == InfoOf(NewsBlock(get_disaster_news(
                                NewsQueryTerms(h.query.text_input, h.query.location_context,
                                               name), 3, ext.n)))
    IN CompiledResults(weather_blk, quake_blk, event_blk, news_blk)

\* lines 304-318: the prompt of a frame whose context_data is cd
PromptOf(h, cd, now) ==
    FinalPrompt(cd, Join("\n", ContextLines(cd)), h.query.text_input, now)

\* lines 336-386: the response of a frame after the LLM call
ResponseOf(h, llm) ==
    LET r == LlmTry(llm)
    IN IF r.exc = None
       THEN OkResponse(h.query, h.context_data, r.generated_text)
       ELSE ErrorResponse(Val(r.exc))

\* the frame of a call that has just begun
NewFrame(q) ==
    [pc |-> "handler", query |-> q, geo |-> None, ext |-> None, now |-> None,
     llm |-> None, target_lat |-> DEFAULT_LAT, target_lon |-> DEFAULT_LON,
     location_name_for_context |-> "India (default)", context_data |-> <<>>,
     final_prompt |-> "", generated_text |-> "", response |-> None]

\* variant: once the first call has filled its dict, every call uses that one
ContextOf_ModuleLevel(i) ==
    IF handlers[1].context_data # <<>>
    THEN handlers[1].context_data
    ELSE handlers[i].context_data

\* line 212: context_data is a local of the call
ContextOf(i) == handlers[i].context_data

PairInit ==
    /\ pc = "serving"
    /\ HandlerIdle
    /\ response = None
    /\ calls = <<>>
    /\ NoRequest /\ NoSms /\ NoCnn
    /\ handlers \in [HandlerIds -> {NewFrame(q) : q \in PairQueries}]

\* lines 204-229 of call i, up to the first await
LocateFor(i, geo) ==
    /\ handlers[i].pc = "handler"
    /\ Truthy(handlers[i].query.location_context) \/ geo.kind = "none"
    /\ LET h == handlers[i]
           l == Located(h.query, geo)
       IN handlers' = [handlers EXCEPT ![i] =
              IF l.raised # None
              THEN [h EXCEPT !.pc = "done", !.geo = Some(geo),
                             !.response = Some(ErrorResponse(Val(l.raised)))]
              ELSE [h EXCEPT !.pc = "gather",
                             !.geo = IF Truthy(h.query.location_context)
                                     THEN Some(geo) ELSE None,
                             !.target_lat = l.target_lat,
                             !.target_lon = l.target_lon,
                             !.location_name_for_context = l.location_name_for_context,
                             !.context_data = << <<"location_info",
                                                  Some(l.location_detail)>> >>]]
    /\ UNCHANGED <<handler, pc, response, calls, request, sms, cnn>>

\* lines 236-345 of call i: the four helpers, the merge, the prompt and the
\* start of the LLM call
GatherFor(i, ext, now) ==
    /\ handlers[i].pc = "gather"
    /\ LET h == handlers[i]
           cd == DictUpdate(ContextOf(i), Fetched(h, ContextOf(i), ext))
       IN handlers' = [handlers EXCEPT ![i] =
              [h EXCEPT !.pc = "llm_wait", !.ext = Some(ext), !.now = Some(now),
                        !.context_data = cd,
                        !.final_prompt = PromptOf(h, cd, now),
                        !.generated_text = "Error: LLM call failed."]]
    /\ UNCHANGED <<handler, pc, response, calls, request, sms, cnn>>

\* lines 346-386 of call i: the LLM call returns or raises
AnswerFor(i, llm) ==
    /\ handlers[i].pc = "llm_wait"
    /\ LET h == handlers[i]
       IN handlers' = [handlers EXCEPT ![i] =
              [h EXCEPT !.pc = "done", !.llm = Some(llm),
                        !.generated_text = LlmTry(llm).generated_text,
                        !.response = Some(ResponseOf(h, llm))]]
    /\ UNCHANGED <<handler, pc, response, calls, request, sms, cnn>>

PairNext ==
    \E i \in HandlerIds :
        \/ \E geo \in PairGeocodes : LocateFor(i, geo)
        \/ \E ext \in PairAnswers, now \in Timestamps : GatherFor(i, ext, now)
        \/ \E llm \in PairLlm : AnswerFor(i, llm)

PairSpec == PairInit /\ [][PairNext]_vars

(***************************************************************************)
(* Vocabulary of the properties                                            *)
(***************************************************************************)
Done == pc = "done"
Status == Val(response).status_code
LlmCalled == \E i \in 1..Len(calls) : calls[i].fn = "generate_content_async"
NoCandidates ==
    llm_outcome # None /\ Val(llm_outcome).kind = "response"
    /\ Val(llm_outcome).candidates = 0

\* the LLMOutcome variant a finished request shows to its caller: success
\* is the 200 body, Blocked and Empty are the client errors with their
\* explanation, TransportError is the upstream error 502
ObservedOutcome ==
    IF Status = 200 THEN "Success"
    ELSE IF Status = 502 THEN "TransportError"
    ELSE IF Status \in 400..499
            /\ Contains(Val(response).detail, "Response blocked by safety filter: ")
    THEN "Blocked"
    ELSE IF Status \in 400..499
            /\ Val(response).detail = "LLM response was empty or blocked for unknown reasons."
    THEN "Empty"
    ELSE "Other"

\* the variant the interpretation rules of the gateway give
ExpectedOutcome(llm) ==
    IF llm.kind = "raise" THEN "TransportError"
    ELSE IF llm.candidates = 0 /\ Truthy(llm.block_reason) THEN "Blocked"
    ELSE IF llm.candidates = 0 THEN "Empty"
    ELSE IF llm.text = None THEN "TransportError"
    ELSE "Success"

\* C1: when the LLM returns no candidates the request ends with a client
\* error (4xx) that carries the explanation, never with the upstream error 502
C1_NoCandidatesIsClientError ==
    (Done /\ NoCandidates) =>
        /\ Status \in 400..499
        /\ Status # 502
        /\ Contains(Val(response).detail, generated_text)

\* C2: the response of the LLM is classified by the priority rules: Blocked
\* with its reason, Empty, TransportError for unreadable text or a raised
\* call, Success with the text
C2_OutcomeClassification ==
    (Done /\ llm_outcome # None) =>
        LET llm == Val(llm_outcome) IN
        /\ ObservedOutcome = ExpectedOutcome(llm)
        /\ ExpectedOutcome(llm) = "Blocked" =>
              Contains(Val(response).detail, Val(llm.block_reason))
        /\ ExpectedOutcome(llm) = "Success" =>
              Val(Val(response).body).llm_response = Val(llm.text)

PendingSources == {s \in Sources : returned[s] = "pending"}
CanStart(s) ==
    CASE s = "weather" -> ENABLED CallWeather
      [] s = "seismic" -> ENABLED CallQuakes
      [] s = "events" -> ENABLED CallEvents
      [] s = "news" -> ENABLED CallNews

\* C3: while one adapter call has not settled, each of the other three has
\* been started or can be started now; a slow call holds up the join only.
\* (The weather call is not due when no location was resolved.)
C3_SlowAdapterDoesNotBlock ==
    \A s \in PendingSources : \A t \in Sources \ {s} :
        \/ returned[t] # "not_called"
        \/ CanStart(t)
        \/ (t = "weather" /\ ~WeatherWanted)

(***************************************************************************)
(* Aggregation and prompt                                                  *)
(***************************************************************************)
\* fetch_all_context has returned and its dict is merged into context_data
Aggregated == pc \in {"prompt", "llm", "llm_wait"} \/ (Done /\ LlmCalled)
\* the prompt is with the LLM: generate_content_async is called and has not returned
PromptSent == pc = "llm_wait"
SentPrompt == calls[Len(calls)].text

SourceOrder == <<"weather", "seismic", "events", "news">>
SourceKeys ==
    <<"current_weather", "recent_earthquakes", "recent_natural_events",
      "related_news_headlines">>
BulletLabels ==
    <<"- Current Weather: ", "- Recent Earthquakes: ", "- Recent Natural Events: ",
      "- Related News Headlines: ">>

StartsWith(s, p) == Len(s) >= Len(p) /\ SubSeq(s, 1, Len(p)) = p
KeyPositions(key) == {i \in 1..Len(context_data) : context_data[i][1] = key}
\* the source a bullet line belongs to, 0 when it is no bullet of a source
BulletRank(line) ==
    IF \E k \in 1..4 : StartsWith(line, BulletLabels[k])
    THEN CHOOSE k \in 1..4 : StartsWith(line, BulletLabels[k])
    ELSE 0
SectionHeader == "Relevant Real-time Information:\n"
SectionEnd == "\n\nUser's Request: "
\* the text between the header and the request block of the prompt is exactly text
PromptSectionIs(text) == Contains(SentPrompt, SectionHeader \o text \o SectionEnd)
\* the prompt shows a bullet of the k-th source
BulletInPrompt(k) == Contains(SentPrompt, "\n" \o BulletLabels[k])

\* C4: the entries of the aggregated context and the bullets of the prompt
\* stand in the order weather, seismic, events, news, whatever the calls did
C4_FixedSourceOrder ==
    /\ Aggregated =>
          \A a, b \in 1..4 : a < b =>
              \A i \in KeyPositions(SourceKeys[a]) :
                  \A j \in KeyPositions(SourceKeys[b]) : i < j
    /\ PromptSent =>
          /\ \A i, j \in 1..Len(context_lines) :
                i < j => /\ 0 < BulletRank(context_lines[i])
                         /\ BulletRank(context_lines[i]) < BulletRank(context_lines[j])
          /\ context_lines # <<>> => PromptSectionIs(Join("\n", context_lines))

\* C4 witness: a finished request whose prompt carries all four bullets
C4_Witness ==
    Done /\ LlmCalled /\ Len(context_lines) = 4
    /\ \A s \in Sources : returned[s] = "items"

\* C5: no failure of the geocoder or of an adapter ends the request: unless
\* validation or the model check rejected it, the context is aggregated, the
\* prompt is built, the LLM is called, and a failure status is the LLM's own
C5_FailuresDoNotAbort ==
    Done =>
        \/ Status \in {422, 503} /\ calls = <<>>
        \/ /\ LlmCalled /\ llm_outcome # None
           /\ Len(context_data) = 5
           /\ final_prompt # ""
           /\ Status # 200 => ExpectedOutcome(Val(llm_outcome)) # "Success"

\* C5 witness: all four adapters returned an error and the request succeeded
C5_Witness ==
    Done /\ Status = 200 /\ \A s \in Sources : returned[s] = "error"

NoLocation == query # None /\ ~Truthy(Val(query).location_context)
GeoFailed == geo_outcome # None /\ Val(geo_outcome).kind # "location"
LocationInfo == Val(DictGet(context_data, "location_info", None))
\* the resolution status the location text of the context stands for
ResolutionStatus ==
    IF LocationInfo = "Default location (20.59, 78.96)" THEN "DEFAULT"
    ELSE IF StartsWith(LocationInfo,
                       "Default location (20.59, 78.96) (Geocoding failed for: ")
    THEN "FAILED_USING_DEFAULT"
    ELSE "RESOLVED"
UsesDefaultCentroid ==
    /\ target_lat = 205937 /\ target_lon = 789629
    /\ \A i \in 1..Len(calls) :
          calls[i].fn = "get_recent_earthquakes_near_location" =>
              calls[i].lat = 205937 /\ calls[i].lon = 789629

\* C6: without a location, or with a failed geocoder, the request runs on
\* the default centroid with status DEFAULT resp. FAILED_USING_DEFAULT, and
\* ends with 200 when the LLM answers
C6_DefaultCentroidFallback ==
    context_data # <<>> =>
        /\ NoLocation => UsesDefaultCentroid /\ ResolutionStatus = "DEFAULT"
        /\ GeoFailed => UsesDefaultCentroid /\ ResolutionStatus = "FAILED_USING_DEFAULT"
        /\ (Done /\ (NoLocation \/ GeoFailed) /\ llm_outcome # None
              /\ ExpectedOutcome(Val(llm_outcome)) = "Success") =>
                 /\ Status = 200
                 /\ Val(Val(response).body).llm_response = Val(Val(llm_outcome).text)

\* C6 witness: the geocoder raised, the seismic helper was called, the LLM answered
C6_Witness ==
    Done /\ Status = 200 /\ geo_outcome # None /\ Val(geo_outcome).kind = "raise"
    /\ returned["seismic"] # "not_called"

TokensOutOfRange ==
    body.max_new_tokens # None
    /\ (Val(body.max_new_tokens) < 50 \/ Val(body.max_new_tokens) > 1024)

\* C7: a token limit outside [50,1024] is rejected with a validation error
\* before any external call; a limit inside is accepted, a missing one is 300
C7_TokenLimitValidated ==
    /\ TokensOutOfRange =>
          /\ query = None /\ calls = <<>> /\ geo_outcome = None /\ llm_outcome = None
          /\ pc # "received" => Done /\ Status = 422
    /\ (~TokensOutOfRange /\ body.text_input # None /\ pc # "received") =>
          /\ query # None
          /\ Val(query).max_new_tokens =
                IF body.max_new_tokens = None THEN 300 ELSE Val(body.max_new_tokens)
          /\ Done => Status # 422

\* C7 witness: a request with limit 1025 was rejected
C7_Witness ==
    Done /\ Status = 422 /\ body.max_new_tokens = Some(1025)
    /\ body.text_input # None

\* no source has a non-empty summary in the aggregated context
ZeroOk ==
    \A i \in 1..Len(context_data) :
        context_data[i][1] # "location_info" => ~Truthy(context_data[i][2])

\* C8: with no OK fragment the context section of the prompt is exactly the
\* sentinel, and it is never empty
C8_SentinelWhenNoContext ==
    PromptSent =>
        /\ ZeroOk => PromptSectionIs(
               "No specific real-time context was retrieved for this query.")
        /\ ~PromptSectionIs("")

\* C8 witness: the LLM was called with a prompt built from no summary at all
C8_Witness == Done /\ LlmCalled /\ ZeroOk /\ Status = 200

\* C9: a source has its bullet in the prompt exactly when its adapter
\* returned a success with at least one item
C9_BulletIffResult ==
    PromptSent =>
        \A k \in 1..4 : BulletInPrompt(k) <=> returned[SourceOrder[k]] = "items"

\* C10: after aggregation the context holds exactly one entry for each of
\* the four sources, failed ones included
C10_OneEntryPerSource ==
    Aggregated =>
        /\ \A k \in 1..4 : Cardinality(KeyPositions(SourceKeys[k])) = 1
        /\ Len(context_data) = 5
        /\ (Done /\ Status = 200) =>
              Val(Val(response).body).context_used_summary = context_data

\* C10 witness: a failed source keeps its entry
C10_Witness ==
    Aggregated /\ returned["seismic"] = "error" /\ returned["news"] = "error"
    /\ KeyPositions("recent_earthquakes") # {}
    /\ DictGet(context_data, "recent_earthquakes", Some("")) = None

(***************************************************************************)
(* Adapter outcomes in the aggregated context                              *)
(***************************************************************************)
\* what the aggregated context holds for the k-th source
SourceEntry(k) == DictGet(context_data, SourceKeys[k], None)
\* the shapes an entry of the aggregated context can take
EntryForms == {"none", "blank", "summary"}
EntryForm(v) ==
    IF v = None THEN "none" ELSE IF Val(v) = "" THEN "blank" ELSE "summary"

\* C11: the aggregated context distinguishes the adapter outcomes: there is
\* a reading of its entries under which a source whose helper failed reads
\* ERROR, one whose helper returned nothing reads EMPTY and one with items
\* reads OK and has a summary; a failed and an empty source differ
C11_OutcomesDistinguished ==
    Aggregated =>
        \E status \in [EntryForms -> {"OK", "EMPTY", "ERROR"}] :
            \A k \in 1..4 :
                LET r == returned[SourceOrder[k]]
                    entry == SourceEntry(k)
                IN /\ r = "error" => status[EntryForm(entry)] = "ERROR"
                   /\ r = "empty" => status[EntryForm(entry)] = "EMPTY"
                   /\ r = "items" => status[EntryForm(entry)] = "OK" /\ Truthy(entry)

(***************************************************************************)
(* Which helpers are called, and with what                                 *)
(***************************************************************************)
AdapterFns ==
    <<"get_city_weather", "get_recent_earthquakes_near_location",
      "get_natural_events", "get_disaster_news">>
CallsOf(fn) == {i \in 1..Len(calls) : calls[i].fn = fn}
Called(fn) == CallsOf(fn) # {}
GeoSucceeded == geo_outcome # None /\ Val(geo_outcome).kind = "location"

\* C12 as stated: every request that reaches aggregation has invoked each of
\* the four adapters, with or without a location, geocoded or not
C12_AllFourInvoked ==
    Aggregated => \A k \in 1..4 : Called(AdapterFns[k])

\* C12: every request that reaches aggregation has invoked the seismic, the
\* events and the news adapter; the weather adapter is invoked only if a
\* location was supplied and geocoding succeeded
C12_WeatherOnlyWhenResolved ==
    Aggregated =>
        /\ \A k \in 2..4 : Called(AdapterFns[k])
        /\ Called("get_city_weather") =>
              Truthy(Val(query).location_context) /\ GeoSucceeded

\* C12 witness: a request without location reached aggregation on three calls
C12_Witness ==
    Aggregated /\ NoLocation /\ ~Called("get_city_weather")
    /\ \A k \in 2..4 : Called(AdapterFns[k])

\* the point the request resolved to: the geocoded one, else the default centroid
ResolvedPoint ==
    IF GeoSucceeded
    THEN <<Val(geo_outcome).latitude, Val(geo_outcome).longitude>>
    ELSE <<205937, 789629>>

ExternalFns ==
    {"get_coordinates", "get_city_weather", "get_recent_earthquakes_near_location",
     "get_natural_events", "get_disaster_news", "generate_content_async"}

\* C15: nothing is retried: within one request the geocoder, each of the four
\* adapters and the LLM are called at most once, whatever the calls returned
C15_NothingRetried ==
    \A fn \in ExternalFns : Cardinality(CallsOf(fn)) <= 1

\* C15 witness: every call of a finished request failed and was made once
C15_Witness ==
    /\ Done /\ Status = 502
    /\ \A s \in Sources : returned[s] = "error"
    /\ \A fn \in ExternalFns : Cardinality(CallsOf(fn)) = 1

GeoSettled == Called("get_coordinates") => geo_outcome # None
AdaptersSettled ==
    \A s \in Sources :
        \/ returned[s] \in {"error", "empty", "items"}
        \/ s = "weather" /\ returned[s] = "not_called"
PromptBuilt == final_prompt # ""
\* the stage a call belongs to
Stage(fn) ==
    IF fn = "get_coordinates" THEN 1
    ELSE IF fn = "generate_content_async" THEN 3 ELSE 2

\* C16: the stages of a request are strictly ordered: the geocoder has
\* settled when an adapter is called, every adapter call has settled when
\* the prompt is built, and the prompt is built when the LLM is called
C16_StagesOrdered ==
    /\ (\E k \in 1..4 : Called(AdapterFns[k])) => GeoSettled
    /\ PromptBuilt => GeoSettled /\ AdaptersSettled
    /\ LlmCalled =>
          /\ PromptBuilt
          /\ \A i \in CallsOf("generate_content_async") : calls[i].text = final_prompt
    /\ \A i, j \in 1..Len(calls) : i < j => Stage(calls[i].fn) <= Stage(calls[j].fn)

\* C16 witness: a request went through the geocoder, four adapters and the LLM
C16_Witness ==
    Done /\ Status = 200 /\ \A fn \in ExternalFns : Called(fn)

\* the bullets the entries of the aggregated context stand for
ExpectedBullets ==
    LET present == {k \in 1..4 : Truthy(SourceEntry(k))}
        nth(i) == CHOOSE k \in present : Cardinality({m \in present : m < k}) = i - 1
    IN [i \in 1..Cardinality(present) |-> BulletLabels[nth(i)] \o Val(SourceEntry(nth(i)))]

\* the prompt as a text of the aggregated context, the user text and the time
ExpectedPrompt(now) ==
    "Role: You are an AI assistant specialized in Indian disaster management and safety procedures.\n"
    \o "Current Time: " \o now \o "\n"
    \o "Location Context: " \o LocationInfo \o "\n\n"
    \o "Relevant Real-time Information:\n"
    \o (IF ExpectedBullets = <<>>
        THEN "No specific real-time context was retrieved for this query."
        ELSE Join("\n", ExpectedBullets))
    \o "\n\nUser's Request: " \o Val(query).text_input \o "\n\n"
    \o TaskBlock \o "\nResponse:"

\* C17: the prompt is a fixed text of the aggregated context (location info
\* and the four summaries) and the user text; apart from the current time
\* nothing else of the request enters it, and the role and task blocks are
\* the same text in every prompt
C17_PromptDeterministic ==
    PromptSent => \E now \in Timestamps : SentPrompt = ExpectedPrompt(now)

\* C17 witness: a prompt with four summaries built at the later time
C17_Witness ==
    /\ PromptSent /\ Len(ExpectedBullets) = 4
    /\ StartsWith(SentPrompt, RoleBlock \o "\nCurrent Time: 2024-06-01 15:00:07 IST\n")

\* the line of the prompt that states the location
LocationLineIs(text) == Contains(SentPrompt, "\nLocation Context: " \o text \o "\n\n")

\* C18: the prompt states a location: the supplied name with the resolved
\* coordinates when geocoding succeeded, the default label when no location
\* was supplied, the default label with the geocoding-failed annotation
\* exactly when a location was supplied and geocoding failed
C18_PromptStatesLocation ==
    PromptSent =>
        /\ NoLocation => LocationLineIs("Default location (20.59, 78.96)")
        /\ GeoSucceeded =>
              LocationLineIs(Val(body.location_context) \o " ("
                  \o Fmt2f(Val(geo_outcome).latitude) \o ", "
                  \o Fmt2f(Val(geo_outcome).longitude) \o ")")
        /\ GeoFailed =>
              LocationLineIs("Default location (20.59, 78.96) (Geocoding failed for: "
                  \o Val(body.location_context) \o ")")
        /\ GeoFailed <=>
              Contains(SentPrompt,
                  "\nLocation Context: Default location (20.59, 78.96) (Geocoding failed for: ")

\* C18 witness: a prompt sent after the geocoder failed on a supplied location
C18_Witness ==
    PromptSent /\ GeoFailed /\ body.location_context = Some("Kolkata")

\* C19: the news query carries the first 80 characters of the user text and
\* no more, whatever the length of the text
C19_NewsQueryTruncated ==
    \A i \in CallsOf("get_disaster_news") :
        LET text == Val(body.text_input)
            head == SubSeq(text, 1, IF Len(text) <= 80 THEN Len(text) ELSE 80)
        IN StartsWith(calls[i].text, "(" \o head \o ") AND (")

\* C19 witness: a user text longer than 80 characters went into a news query
C19_Witness ==
    Called("get_disaster_news") /\ Len(Val(body.text_input)) > 80

(***************************************************************************)
(* Termination                                                             *)
(***************************************************************************)
\* C14: every external call is bounded by a timeout of its own, so every
\* request eventually ends with a response or an error even when a service
\* never answers; an adapter that timed out counts as one that failed
C14_RequestEventuallyEnds ==
    /\ <>Done
    /\ [](\A s \in Sources : returned[s] = "pending" => <>(returned[s] # "pending"))

(***************************************************************************)
(* The helpers' boundary                                                   *)
(***************************************************************************)
\* the result of each helper, None while it has not returned
HelperResults ==
    << <<"get_coordinates", coords>>, <<"get_city_weather", weather_data>>,
       <<"get_recent_earthquakes_near_location", quakes>>,
       <<"get_natural_events", events>>, <<"get_disaster_news", news>> >>
\* the fields a success payload carries
SuccessFields(fn) ==
    CASE fn = "get_coordinates" -> {"latitude", "longitude"}
      [] fn = "get_city_weather" -> {"city", "temperature_c", "description"}
      [] fn = "get_recent_earthquakes_near_location" -> {"count", "earthquakes"}
      [] fn = "get_natural_events" -> {"count", "events"}
      [] fn = "get_disaster_news" -> {"total_results", "articles"}

\* C20: no helper raises past its boundary: for a missing key, a network
\* exception, a bad HTTP status and a malformed or partial payload alike it
\* returns either a success payload or a dictionary with an error field,
\* never both
C20_AdaptersNeverRaise ==
    \A i \in 1..5 :
        LET result == HelperResults[i][2] IN
        result # None =>
            LET fields == DOMAIN Val(result) IN
            /\ "raised" \notin fields
            /\ \/ fields = {"error"} /\ Val(result).error # ""
               \/ "error" \notin fields /\ SuccessFields(HelperResults[i][1]) \subseteq fields

\* C20 witness: the seismic helper returned the error dictionary for a
\* feature with two coordinates only
C20_Witness ==
    /\ pc = "returned"
    /\ quakes = Some([error |->
                        "Error processing earthquake data: list index out of range"])

(***************************************************************************)
(* The model handle, the weather guard, the news place term, the response  *)
(***************************************************************************)
\* C21: without a configured LLM a request that passed validation ends with
\* 503, and no geocoder, adapter or LLM call is made for it
C21_NoModelNoCalls ==
    ~gemini_model =>
        /\ calls = <<>> /\ geo_outcome = None /\ llm_outcome = None
        /\ \A s \in Sources : returned[s] = "not_called"
        /\ pc \in {"received", "handler", "done"}
        /\ (Done /\ query # None) => Status = 503

\* C21 witness: a valid request was turned away with 503
C21_Witness ==
    Done /\ ~gemini_model /\ query # None /\ Status = 503

\* C27: once fetch_all_context is past its weather block, the weather helper
\* has been called exactly when a location was supplied and its geocoding
\* succeeded, whatever the text of the location, and with the supplied name
C27_WeatherIffGeocoded ==
    Called("get_recent_earthquakes_near_location") =>
        /\ Called("get_city_weather") <=>
              (Truthy(body.location_context) /\ GeoSucceeded)
        /\ \A i \in CallsOf("get_city_weather") :
              calls[i].place = Val(body.location_context)

\* C28: the place term of the news query is the supplied place name when
\* geocoding succeeded and the literal India in every other case
C28_NewsPlaceTerm ==
    \A i \in CallsOf("get_disaster_news") :
        LET text == Val(body.text_input)
            head == SubSeq(text, 1, IF Len(text) <= 80 THEN Len(text) ELSE 80)
            term == IF GeoSucceeded THEN Val(body.location_context) ELSE "India"
        IN calls[i].text =
              "(" \o head \o ") AND (" \o term \o
              ") AND (disaster OR flood OR cyclone OR earthquake OR heatwave OR landslide)"

\* the texts generated_text holds when no text was extracted
PlaceholderTexts ==
    {"Error: LLM call failed.",
     "LLM response was empty or blocked for unknown reasons.",
     "Error: Could not parse LLM response content."}

\* C29: a 200 response carries the text extracted from the LLM's candidate
\* and never a placeholder or error text; a request has a response exactly
\* when it has ended, and the response is either the 200 body or one error
C29_SuccessCarriesExtractedText ==
    /\ Done <=> response # None
    /\ (Done /\ Status = 200) =>
          /\ llm_outcome # None
          /\ Val(llm_outcome).kind = "response"
          /\ Val(llm_outcome).candidates > 0
          /\ Val(llm_outcome).text # None
          /\ Val(response).body # None
          /\ LET text == Val(Val(response).body).llm_response
             IN /\ text = Val(Val(llm_outcome).text)
                /\ text \notin PlaceholderTexts
                /\ ~StartsWith(text, "Response blocked by safety filter: ")
    /\ (Done /\ Status # 200) =>
          /\ Status \in 400..599
          /\ Val(response).body = None
          /\ Val(response).detail # ""

\* C29 witness: a request ended with 200 and the LLM's text
C29_Witness ==
    /\ Done /\ Status = 200
    /\ Val(Val(response).body).llm_response = "Stay indoors and follow official advisories."

(***************************************************************************)
(* Size of the summaries                                                   *)
(***************************************************************************)
\* the number of places at which sub occurs in s
CountOf(s, sub) ==
    Cardinality({i \in 1..(Len(s) - Len(sub) + 1) : SubSeq(s, i, i + Len(sub) - 1) = sub})
\* the items a summary lists: every seismic item has its " near ", every
\* headline its closing quote before the source
QuakesListed == IF quake_info = None THEN 0 ELSE CountOf(Val(quake_info), " near ")
HeadlinesListed == IF news_info = None THEN 0 ELSE CountOf(Val(news_info), "' (")

\* C24: whatever the helpers return, the seismic summary lists at most 3
\* events and the news summary at most 5 headlines
C24_SummariesBounded ==
    QuakesListed <= 3 /\ HeadlinesListed <= 5

(***************************************************************************)
(* The API key check and the direct endpoints (EndpointSpec).              *)
(***************************************************************************)
Answered == request # None /\ pc = "done" /\ response # None
KeyRejected(r) == r.key = None \/ Val(r.key) # API_KEY_FASTAPI

\* C25: a request without the right X-API-Key is answered 401 before any
\* handler runs on every endpoint but the status endpoint, and GET / is
\* answered with the running-status message whatever the key.
C25_KeyGuardsAllButStatus ==
    Answered =>
        LET r == Val(request)
        IN /\ (r.path # "/" /\ KeyRejected(r)) =>
                  (Val(response).status_code = 401 /\ calls = <<>>)
           /\ r.path = "/" =>
                  response = Some(JsonResponse(
                      [message |-> "Disaster Management Assistant API is running."]))

\* the status the weather endpoint is to give an adapter error
WeatherStatusFor(error) ==
    IF Contains(error, "API Key") THEN 500
    ELSE IF Contains(error, "404") THEN 404
    ELSE 400

\* the adapter result the handler of the path got, None before it ran
DirectResult(path) ==
    CASE path = "/context/weather" -> weather_data
      [] path = "/context/earthquakes" -> quakes
      [] path = "/context/natural_events" -> events
      [] path = "/context/news" -> news
      [] OTHER -> None

\* C26: the weather endpoint answers an adapter error 500 when it names the
\* API Key, else 404 when it names 404, else 400, and returns a result
\* without error unchanged with 200; the seismic and events endpoints answer
\* every adapter error 500.
C26_DirectErrorsMapped ==
    (Answered /\ DirectResult(Val(request).path) # None) =>
        LET path == Val(request).path
            data == Val(DirectResult(path))
            status == Val(response).status_code
        IN /\ path = "/context/weather" =>
                  IF "error" \in DOMAIN data
                  THEN status = WeatherStatusFor(data.error)
                  ELSE response = Some([status_code |-> 200, detail |-> "",
                                        body |-> Some(data)])
           /\ (path \in {"/context/earthquakes", "/context/natural_events"}
               /\ "error" \in DOMAIN data) => status = 500

C26_Witness ==
    /\ Answered
    /\ Val(request).path = "/context/weather"
    /\ weather_data # None
    /\ "error" \in DOMAIN Val(weather_data)
    /\ Contains(Val(weather_data).error, "API Key")
    /\ Contains(Val(weather_data).error, "404")
    /\ Val(response).status_code = 500

(***************************************************************************)
(* The SMS integration (SmsSpec).                                          *)
(***************************************************************************)
SmsReturned == pc = "done" /\ response # None /\ "value" \in DOMAIN Val(response)
TwilioCalled == \E i \in 1..Len(calls) : calls[i].fn = "messages.create"
\* '+' followed only by digits
PlusThenDigits(number) ==
    /\ Len(number) >= 1
    /\ SubSeq(number, 1, 1) = "+"
    /\ \A i \in 2..Len(number) : SubSeq(number, i, i) \in DigitChars

\* C22: send_disaster_alert_sms returns a boolean and never raises: True
\* exactly when the Twilio call was made and reported 'queued' or 'sent';
\* False when the library or the client is missing, the recipient or the
\* body is empty, the number is not '+' followed only by digits, another
\* status is reported or the call raises; never a Twilio call when the
\* library or client is missing or an argument is empty.
C22_SmsBestEffort ==
    /\ (pc = "done" /\ response # None) =>
           (SmsReturned /\ Val(response).value \in BOOLEAN)
    /\ SmsReturned =>
           /\ Val(response).value =
                  (/\ TwilioCalled
                   /\ twilio_outcome # None
                   /\ Val(twilio_outcome).kind = "message"
                   /\ Val(twilio_outcome).status \in {"queued", "sent"})
           /\ (\/ to_phone_number = None \/ Val(to_phone_number) = ""
               \/ message_body = None \/ Val(message_body) = ""
               \/ ~PlusThenDigits(Val(to_phone_number))
               \/ ~TWILIO_AVAILABLE \/ ~twilio_client) => Val(response).value = FALSE
    /\ (\/ ~TWILIO_AVAILABLE \/ ~twilio_client
        \/ to_phone_number = None \/ Val(to_phone_number) = ""
        \/ message_body = None \/ Val(message_body) = "") => ~TwilioCalled

C22_Witness ==
    /\ SmsReturned
    /\ TwilioCalled
    /\ Val(twilio_outcome).kind = "message"
    /\ Val(twilio_outcome).status = "sent"
    /\ Val(response).value = TRUE

(***************************************************************************)
(* The image model and its labels (CnnSpec).                               *)
(***************************************************************************)
\* a model with a list of strings as long as its output: two labels for one
\* unit, else one label per unit
ConsistentPair(model, labels) ==
    /\ labels.type = "list"
    /\ \A i \in 1..Len(labels.items) : labels.items[i].type = "str"
    /\ Len(labels.items) = (IF model.units = 1 THEN 2 ELSE model.units)
PairLoaded ==
    /\ cnn_model # None
    /\ class_labels # None
    /\ ConsistentPair(Val(cnn_model), Val(class_labels))
LoadAnswered == response # None /\ Val(response).fn = "load_cnn_model"
LoadStep == \E disk \in Disks : load_cnn_model(disk)
Predictions == {i \in 1..Len(calls) : calls[i].fn = "predict"}

C30_LabelsOnlyWithModel ==
    /\ class_labels # None => PairLoaded
    /\ \A i \in Predictions : ConsistentPair([units |-> calls[i].n], calls[i].bbox)
C30_LoadReportsPair ==
    LoadStep => /\ Val(response').value = PairLoaded'
                /\ PairLoaded => /\ Val(response').value = TRUE
                                 /\ UNCHANGED <<cnn, calls>>

\* C30: after any sequence of load_cnn_model calls class_labels is set only
\* together with cnn_model and is then a list of strings as long as the
\* model's output (two for one unit); a call returns True exactly when it
\* leaves that state, a call in that state returns True without reloading,
\* and analyze_satellite_image predicts only with such a pair.
C30_ModelAndLabelsConsistent ==
    [](C30_LabelsOnlyWithModel) /\ [][C30_LoadReportsPair]_vars

C30_Witness ==
    /\ PairLoaded
    /\ Val(cnn_model).units = 1
    /\ Predictions # {}
    /\ LoadAnswered
    /\ Val(response).value = TRUE

(***************************************************************************)
(* Two requests side by side (PairSpec).                                   *)
(***************************************************************************)
\* what the inputs and the adapter results of one request alone give
OwnLocation(h) == Located(h.query, IF h.geo = None THEN CHOOSE g \in PairGeocodes : g.kind = "none" ELSE Val(h.geo))
OwnLocated(h) ==
    [target_lat |-> OwnLocation(h).target_lat,
     target_lon |-> OwnLocation(h).target_lon,
     location_name_for_context |-> OwnLocation(h).location_name_for_context,
     query |-> h.query]
OwnLocationInfo(h) == << <<"location_info", Some(OwnLocation(h).location_detail)>> >>
OwnContext(h) ==
    DictUpdate(OwnLocationInfo(h), Fetched(OwnLocated(h), OwnLocationInfo(h), Val(h.ext)))
OwnPrompt(h) == PromptOf(h, OwnContext(h), Val(h.now))
OwnResponse(h) ==
    IF LlmTry(Val(h.llm)).exc = None
    THEN OkResponse(h.query, OwnContext(h), LlmTry(Val(h.llm)).generated_text)
    ELSE ErrorResponse(Val(LlmTry(Val(h.llm)).exc))

\* C23: of two /process requests served at the same time, each one's context
\* summary, prompt and response are what its own input and its own adapter
\* results give, whatever the other request does in between.
C23_RequestsIsolated ==
    \A i \in DOMAIN handlers :
        LET h == handlers[i]
        IN /\ h.pc \in {"llm_wait", "done"} /\ h.ext # None =>
                  /\ h.context_data = OwnContext(h)
                  /\ h.final_prompt = OwnPrompt(h)
           /\ h.pc = "done" /\ h.llm # None => h.response = Some(OwnResponse(h))

C23_Witness ==
    /\ DOMAIN handlers = HandlerIds
    /\ handlers[1].query # handlers[2].query
    /\ handlers[1].pc = "done" /\ handlers[1].llm # None
    /\ handlers[2].pc = "llm_wait"
    /\ Val(handlers[1].response).status_code = 200
    /\ handlers[1].context_data # handlers[2].context_data

====
